---- MODULE Spec2Model ----
(***************************************************************************)
(* A state-machine model of the SimpleConsensus protocol instance of       *)
(* node/src/components/consensus/protocols/simple_consensus.rs.            *)
(*                                                                         *)
(* Every handler of the Rust code is a pure operator over a record `s`     *)
(* holding the fields of `SimpleConsensus` it reads or writes plus the     *)
(* `outcomes` vector it returns; an action applies one public operation    *)
(* (handle_message, handle_timer, propose, resolve_validity,               *)
(* activate_validator, mark_faulty) to the current state.                  *)
(*                                                                         *)
(* Option<T> is modelled as a set with at most one element: None == {} and *)
(* Some(x) == {x}.  A panic of the Rust code (indexing a BTreeMap with a   *)
(* missing key, a failed `expect`) ends the program: the model moves to a  *)
(* terminal state with crashed = TRUE.                                     *)
(***************************************************************************)
EXTENDS Integers, Sequences, FiniteSets, TLC

VARIABLES
    weights,                            \* ValidatorMap<Weight>
    ftt,                                \* fault tolerance threshold
    faults,                             \* HashMap<ValidatorIndex, Fault>
    rounds,                             \* BTreeMap<RoundId, Round>
    first_non_finalized_round_id,
    proposals_waiting_for_parent,
    proposals_waiting_for_validation,
    pending_proposal_round_ids,
    active_validator,
    current_timeout,
    progress_detected,
    outcomes,                           \* ProtocolOutcomes returned by the last operation
    crashed,                            \* the last operation panicked
    quorum_call,                        \* arguments and results of a direct is_quorum application
    delivered,                          \* how often handle_message was given each message (up to twice), where recorded
    channels,                           \* MessageReader: [Channel; N]
    read,                               \* the buffer the last process_incoming was given, and what it returned
    matrix,                             \* ValidatorMatrix
    sufficient,                         \* arguments and result of the last have_sufficient_weight
    counted,                            \* per channel, how many NewRequest and RequestCancellation reads were returned, where counted
    registering,                        \* per holder of the matrix, the register_validator_weights call that found its era absent and has not inserted yet
    observed,                           \* per era, the weights a reader of the matrix last saw
    prefixer                            \* LengthPrefixer: its writer, the GenericBufSender it returned and the result of the last poll

vars == <<weights, ftt, faults, rounds, first_non_finalized_round_id,
          proposals_waiting_for_parent, proposals_waiting_for_validation,
          pending_proposal_round_ids, active_validator, current_timeout,
          progress_detected, outcomes, crashed, quorum_call, delivered,
          channels, read, counted,
                   matrix, sufficient,
          registering, observed, prefixer>>

-----------------------------------------------------------------------------
(* Bounds of the model *)

\* Messages and timers are handled for rounds 0..MaxRound.
MaxRound == 1

\* Largest single validator weight drawn by the quorum-arithmetic specification.
MaxWeight == 2

\* At most this many items (signatures, proposals, parked proposals, faults)
\* are held by the instance when a further operation is applied.
MaxItems == 4

-----------------------------------------------------------------------------
(* Option<T> *)

None == {}

Some(x) == {x}

Unwrap(o) == CHOOSE x \in o : TRUE

-----------------------------------------------------------------------------
(* Program constants *)

TIMER_ID_ROUND == 0

TIMER_ID_SYNC_PEER == 1

TIMER_ID_PROPOSAL_TIMEOUT == 2

TIMER_ID_LOG_PARTICIPATION == 3

MAX_FUTURE_ROUNDS == 10

\* Timestamp::from(u64::MAX), the initial current_timeout: the largest timestamp,
\* here the largest integer the model checker represents.
TIMESTAMP_MAX == 2147483647

-----------------------------------------------------------------------------
(* Weights and quorums *)

ValidatorIndexes == {0, 1, 2}

RECURSIVE BitAnd(_, _)
BitAnd(a, b) ==
    IF a = 0 \/ b = 0 THEN 0
    ELSE (a % 2) * (b % 2) + 2 * BitAnd(a \div 2, b \div 2)

RECURSIVE sum_weights(_)
sum_weights(vidxs) ==
    IF vidxs = {} THEN 0
    ELSE LET vidx == CHOOSE v \in vidxs : TRUE
         IN  weights[vidx] + sum_weights(vidxs \ {vidx})

total_weight == sum_weights(DOMAIN weights)

faulty_weight(fs) == sum_weights(DOMAIN fs)

quorum_threshold ==
    total_weight \div 2 + ftt \div 2 + BitAnd(BitAnd(total_weight, ftt), 1)

RECURSIVE is_quorum_loop(_, _, _)
is_quorum_loop(fs, vidxs, sum) ==
    IF vidxs = {} THEN FALSE
    ELSE LET vidx == CHOOSE v \in vidxs : TRUE
         IN  IF vidx \notin DOMAIN fs
             THEN IF sum + weights[vidx] >= quorum_threshold THEN TRUE
                  ELSE is_quorum_loop(fs, vidxs \ {vidx}, sum + weights[vidx])
             ELSE is_quorum_loop(fs, vidxs \ {vidx}, sum)

\* `true` if the given validators, together with all faulty validators, form a quorum.
\* A variant of is_quorum that asks for a weight strictly above the threshold.
C15_Mutant_is_quorum(fs, vidxs) ==
    sum_weights(vidxs \cup DOMAIN fs) > quorum_threshold

is_quorum(fs, vidxs) ==
    LET sum == faulty_weight(fs)
    IN  IF sum >= quorum_threshold THEN TRUE
        ELSE is_quorum_loop(fs, vidxs, sum)

-----------------------------------------------------------------------------
(* Maps *)

EmptyMap == [x \in {} |-> x]

MapPut(f, k, v) == [x \in DOMAIN f \cup {k} |-> IF x = k THEN v ELSE f[x]]

MapRemove(f, k) == [x \in DOMAIN f \ {k} |-> f[x]]

RECURSIVE SumOver(_, _)
SumOver(f, S) ==
    IF S = {} THEN 0
    ELSE LET x == CHOOSE y \in S : TRUE IN f[x] + SumOver(f, S \ {x})

\* The element a hash-keyed collection yields first: iteration order of a
\* HashMap/HashSet is unspecified, `first` is the key the caller's oracle puts first.
Pick(S, first) == IF first \in S THEN first ELSE CHOOSE x \in S : TRUE

RECURSIVE IterOrder(_, _)
IterOrder(S, first) ==
    IF S = {} THEN <<>>
    ELSE LET x == Pick(S, first) IN <<x>> \o IterOrder(S \ {x}, first)

\* The elements of a set in some order.
RECURSIVE SeqOf(_)
SeqOf(S) ==
    IF S = {} THEN <<>>
    ELSE LET x == CHOOSE y \in S : TRUE IN <<x>> \o SeqOf(S \ {x})

Max(S) == CHOOSE x \in S : \A y \in S : y <= x

-----------------------------------------------------------------------------
(* Proposals, contents, messages *)

\* The consensus values of the model: "B" holds deploys and needs validation,
\* the empty block "E" does not.
Blocks == {"B", "E"}

needs_validation(block) == block = "B"

\* Proposal timestamps and the `now` values handed to the operations.
MaxTime == 1

Times == 0..MaxTime

ProposalTimestamps == {0}

RoundIds == 0..MaxRound

\* A round id beyond current_round() + MAX_FUTURE_ROUNDS in every state of the model.
FutureRound == MaxRound + 1 + MAX_FUTURE_ROUNDS + 1

\* The proposals of the model: an empty block without a parent, a block with
\* deploys on top of round 0, and the proposal without a block.
RootProposal ==
    [timestamp |-> 0, maybe_block |-> Some("E"), maybe_parent_round_id |-> None]

ChildProposal ==
    [timestamp |-> 0, maybe_block |-> Some("B"), maybe_parent_round_id |-> Some(0)]

DummyProposal ==
    [timestamp |-> 0, maybe_block |-> None, maybe_parent_round_id |-> None]

Proposals == {RootProposal, ChildProposal, DummyProposal}

\* Proposal::hash: the digest of the serialized fields (collision free).
proposal_hash(proposal) ==
    <<"hash", proposal.timestamp, proposal.maybe_block, proposal.maybe_parent_round_id>>

Hashes == {proposal_hash(p) : p \in Proposals}

Content_Proposal(proposal) == [type |-> "Proposal", proposal |-> proposal]

Content_Echo(hash) == [type |-> "Echo", hash |-> hash]

Content_Vote(vote) == [type |-> "Vote", vote |-> vote]

Contents ==
    {Content_Proposal(p) : p \in Proposals}
        \cup {Content_Echo(h) : h \in Hashes}
        \cup {Content_Vote(b) : b \in BOOLEAN}

is_proposal(content) == content.type = "Proposal"

INSTANCE_ID == "this-era"

\* The signature of validator `signer` over the serialized fields
\* (round_id, instance_id, content, validator_idx).
sign(signer, round_id, content, validator_idx) ==
    [signer |-> signer, fields |-> <<round_id, INSTANCE_ID, content, validator_idx>>]

\* A signature that verifies against nothing.
BadSignature == [signer |-> -1, fields |-> <<>>]

\* A variant of verify_signature that accepts every signature.
C10_Mutant_verify_signature(fields, validator_id, signature) == TRUE

verify_signature(fields, validator_id, signature) ==
    signature.signer = validator_id /\ signature.fields = fields

Message_Signed(round_id, instance_id, content, validator_idx, signature) ==
    [variant |-> "Signed", round_id |-> round_id, instance_id |-> instance_id,
     content |-> content, validator_idx |-> validator_idx, signature |-> signature]

Message_SyncState(round_id, maybe_hash, proposal, first_validator_idx, echos, true_votes, false_votes, faulty, instance_id) ==
    [variant |-> "SyncState", round_id |-> round_id, proposal_hash |-> maybe_hash,
     proposal |-> proposal, first_validator_idx |-> first_validator_idx,
     echos |-> echos, true_votes |-> true_votes, false_votes |-> false_votes,
     faulty |-> faulty, instance_id |-> instance_id]

\* bincode: serialize wraps a message into bytes, deserialize unwraps them.
serialize(message) == [bytes |-> "bincode", message |-> message]

GarbageBytes == [bytes |-> "garbage"]

deserialize_ok(msg) == msg.bytes = "bincode"

deserialize(msg) == msg.message

NodeIds == {"peer"}

\* LeaderSequence::leader: some validator for every round, fixed by the era's seed.
leader(round_id) == round_id % Cardinality(DOMAIN weights)

-----------------------------------------------------------------------------
(* Round *)

RoundOutcome_default ==
    [accepted_proposal_height |-> None, quorum_echos |-> None, quorum_votes |-> None]

Round_new ==
    [proposals |-> EmptyMap,
     echos |-> EmptyMap,
     votes |-> [vote \in BOOLEAN |-> [vidx \in DOMAIN weights |-> None]],
     outcome |-> RoundOutcome_default]

keys_some(validator_map) == {vidx \in DOMAIN validator_map : validator_map[vidx] # None}

\* Round::insert_proposal: the new round and Some(hash), or None if we already had it.
insert_proposal(round, proposal, signature) ==
    LET hash == proposal_hash(proposal)
    IN  [round |-> [round EXCEPT !.proposals =
                        MapPut(@, hash, [proposal |-> proposal, signature |-> signature])],
         hash |-> IF hash \in DOMAIN round.proposals THEN None ELSE Some(hash)]

\* Round::insert_echo: the new round and whether the echo is new.
insert_echo(round, hash, validator_idx, signature) ==
    LET echo_map == IF hash \in DOMAIN round.echos THEN round.echos[hash] ELSE EmptyMap
    IN  [round |-> [round EXCEPT !.echos =
                        MapPut(@, hash, MapPut(echo_map, validator_idx, signature))],
         new |-> validator_idx \notin DOMAIN echo_map]

\* Round::insert_vote: the new round and whether the vote is new.
insert_vote(round, vote, validator_idx, signature) ==
    IF round.votes[vote][validator_idx] = None
    THEN [round |-> [round EXCEPT !.votes[vote][validator_idx] = Some(signature)],
          new |-> TRUE]
    ELSE [round |-> round, new |-> FALSE]

has_echoed(round, validator_idx) ==
    \E hash \in DOMAIN round.echos : validator_idx \in DOMAIN round.echos[hash]

has_voted(round, validator_idx) ==
    round.votes[TRUE][validator_idx] # None \/ round.votes[FALSE][validator_idx] # None

has_accepted_proposal(round) == round.outcome.accepted_proposal_height # None

\* Round::accepted_proposal: Some(<<height, proposal>>) or None.
accepted_proposal(round) ==
    IF round.outcome.accepted_proposal_height = None THEN None
    ELSE IF round.outcome.quorum_echos = None THEN None
    ELSE IF Unwrap(round.outcome.quorum_echos) \notin DOMAIN round.proposals THEN None
    ELSE Some(<<Unwrap(round.outcome.accepted_proposal_height),
                round.proposals[Unwrap(round.outcome.quorum_echos)].proposal>>)

\* Round::contains
\* A variant of Round::contains that does not look for Votes.
C13_Mutant_contains(round, content, validator_idx) ==
    CASE content.type = "Proposal" ->
             proposal_hash(content.proposal) \in DOMAIN round.proposals
      [] content.type = "Echo" ->
             /\ content.hash \in DOMAIN round.echos
             /\ validator_idx \in DOMAIN round.echos[content.hash]
      [] content.type = "Vote" -> FALSE

contains(round, content, validator_idx) ==
    CASE content.type = "Proposal" -> proposal_hash(content.proposal) \in DOMAIN round.proposals
      [] content.type = "Echo" ->
            /\ content.hash \in DOMAIN round.echos
            /\ validator_idx \in DOMAIN round.echos[content.hash]
      [] content.type = "Vote" -> round.votes[content.vote][validator_idx] # None

-----------------------------------------------------------------------------
(* Configuration of the instance *)

\* self.proposal_timeout
PROPOSAL_TIMEOUT == 1

\* self.config.pending_vertex_timeout
PENDING_VERTEX_TIMEOUT == 1

\* self.params.end_height()
END_HEIGHT == 2

\* self.params.end_timestamp()
END_TIMESTAMP == 0

\* self.params.start_timestamp()
START_TIMESTAMP == 0

-----------------------------------------------------------------------------
(* Outcomes *)

Push(s, outcome) == [s EXCEPT !.outcomes = Append(@, outcome)]

Crash(s) == [s EXCEPT !.crashed = TRUE]

CreatedGossipMessage(message) ==
    [type |-> "CreatedGossipMessage", msg |-> serialize(message)]

NewEvidence(validator_id) == [type |-> "NewEvidence", validator_id |-> validator_id]

FttExceeded == [type |-> "FttExceeded"]

CreatedTargetedMessage(message, sender) ==
    [type |-> "CreatedTargetedMessage", msg |-> serialize(message), sender |-> sender]

SendEvidence(sender, validator_id) ==
    [type |-> "SendEvidence", sender |-> sender, validator_id |-> validator_id]

ScheduleTimer(timestamp, timer_id) ==
    [type |-> "ScheduleTimer", timestamp |-> timestamp, timer_id |-> timer_id]

CreateNewBlock(block_context) ==
    [type |-> "CreateNewBlock", block_context |-> block_context]

ValidateConsensusValue(sender, proposed_block) ==
    [type |-> "ValidateConsensusValue", sender |-> sender, proposed_block |-> proposed_block]

\* round_id is not a field of FinalizedBlock: it records the round being finalized.
FinalizedBlock(round_id, value, timestamp, relative_height, terminal, proposer) ==
    [type |-> "FinalizedBlock", round_id |-> round_id, value |-> value,
     timestamp |-> timestamp, relative_height |-> relative_height,
     terminal_block_data |-> terminal, proposer |-> proposer]

InvalidIncomingMessage(msg, sender, error) ==
    [type |-> "InvalidIncomingMessage", msg |-> msg, sender |-> sender, error |-> error]

BlockContext(timestamp, ancestor_values) ==
    [timestamp |-> timestamp, ancestor_values |-> ancestor_values]

ProposedBlock(value, context) == [value |-> value, context |-> context]

-----------------------------------------------------------------------------
(* Faults *)

Fault_Banned == [kind |-> "Banned"]

Fault_Indirect == [kind |-> "Indirect"]

Fault_Direct(msg0, msg1) == [kind |-> "Direct", msg0 |-> msg0, msg1 |-> msg1]

is_direct(fault) == fault.kind = "Direct"

\* A variant of is_banned that treats no validator as banned.
C12_Mutant_is_banned(fault) == FALSE

is_banned(fault) == fault.kind = "Banned"

-----------------------------------------------------------------------------
(* SimpleConsensus: queries *)

has_round(s, round_id) == round_id \in DOMAIN s.rounds

\* round_mut: creates an empty round if it does not exist yet.
round_mut(s, round_id) ==
    IF has_round(s, round_id) THEN s
    ELSE [s EXCEPT !.rounds = MapPut(@, round_id, Round_new)]

is_skippable_round(s, round_id) ==
    /\ has_round(s, round_id)
    /\ s.rounds[round_id].outcome.quorum_votes = Some(FALSE)

RECURSIVE first_not_skippable(_, _)
first_not_skippable(s, round_id) ==
    IF is_skippable_round(s, round_id) THEN first_not_skippable(s, round_id + 1)
    ELSE round_id

current_round(s) ==
    LET accepted == {r \in DOMAIN s.rounds : has_accepted_proposal(s.rounds[r])}
        after_last_accepted == IF accepted = {} THEN 0 ELSE Max(accepted) + 1
    IN  first_not_skippable(s, after_last_accepted)

\* Option of <<height, proposal>> of the round, None if the round does not exist.
round_accepted_proposal(s, round_id) ==
    IF has_round(s, round_id) THEN accepted_proposal(s.rounds[round_id]) ELSE None

accepted_switch_block(s, round_id) ==
    LET acc == round_accepted_proposal(s, round_id)
    IN  /\ acc # None
        /\ Unwrap(acc)[1] + 1 >= END_HEIGHT
        /\ Unwrap(acc)[2].timestamp >= END_TIMESTAMP

finalized_switch_block(s) ==
    /\ s.first_non_finalized_round_id >= 1
    /\ accepted_switch_block(s, s.first_non_finalized_round_id - 1)

accepted_dummy_proposal(s, round_id) ==
    LET acc == round_accepted_proposal(s, round_id)
    IN  acc # None /\ Unwrap(acc)[2].maybe_block = None

\* Option of the sequence of accepted values of the round and its ancestors.
RECURSIVE ancestor_values(_, _)
ancestor_values(s, round_id) ==
    LET acc == round_accepted_proposal(s, round_id)
    IN  IF acc = None THEN None
        ELSE LET proposal == Unwrap(acc)[2]
                 value == IF proposal.maybe_block = None THEN <<>>
                          ELSE <<Unwrap(proposal.maybe_block)>>
             IN  IF proposal.maybe_parent_round_id = None THEN Some(value)
                 ELSE LET rest == ancestor_values(s, Unwrap(proposal.maybe_parent_round_id))
                      IN  IF rest = None THEN None ELSE Some(value \o Unwrap(rest))

-----------------------------------------------------------------------------
(* SimpleConsensus: handlers.  Each takes the state record and returns it   *)
(* with the handler's assignments applied and its outcomes appended.        *)

\* The handlers call each other recursively: call(op, s, args) is the call
\* self.op(args) of one handler by another.
RECURSIVE call(_, _, _)
RECURSIVE check_future_rounds(_, _, _)
RECURSIVE validate_waiting(_, _, _)
RECURSIVE handle_fault_rounds(_, _, _)

\* A variant of already_finalized that finalizes a round again.
C4_Mutant_already_finalized(s, round_id) == FALSE

\* The round was already finalized.
already_finalized(s, round_id) == round_id < s.first_non_finalized_round_id

\* A variant of finalize_parent that finalizes a round without its ancestors.
C7_Mutant_finalize_parent(s, proposal) == s

\* Output the parent first if it isn't already finalized.
finalize_parent(s, proposal) ==
    IF proposal.maybe_parent_round_id # None
    THEN call("finalize_round", s, <<Unwrap(proposal.maybe_parent_round_id)>>)
    ELSE s

\* finalize_round after the parent was output: the round itself is finalized.
finalize_round_output(s, round_id, relative_height, proposal) ==
    IF s.crashed THEN s
    ELSE LET s1 == [s EXCEPT !.first_non_finalized_round_id = round_id + 1]
         IN  IF proposal.maybe_block = None THEN s1
             ELSE Push(s1, FinalizedBlock(round_id, Unwrap(proposal.maybe_block),
                                          proposal.timestamp, relative_height,
                                          accepted_switch_block(s1, round_id),
                                          leader(round_id)))

finalize_round(s, round_id) ==
    IF s.crashed \/ already_finalized(s, round_id) THEN s
    ELSE LET acc == round_accepted_proposal(s, round_id)
         IN  IF acc = None THEN s
             ELSE finalize_round_output(finalize_parent(s, Unwrap(acc)[2]), round_id,
                                        Unwrap(acc)[1], Unwrap(acc)[2])

\* The proposals waiting for the given parent, with their rounds and senders,
\* in the order the nested HashMap/HashSet iteration yields them.
waiting_entries(s, parent_round_id) ==
    LET waiting == s.proposals_waiting_for_parent[parent_round_id]
        byHash == [h \in {proposal_hash(p) : p \in DOMAIN waiting} |->
                      CHOOSE p \in DOMAIN waiting : proposal_hash(p) = h]
        order == IterOrder(DOMAIN byHash, s.first)
        entriesOf(p) == LET es == SeqOf(waiting[p])
                        IN  [i \in 1..Len(es) |-> <<p, es[i]>>]
        RECURSIVE concat(_)
        concat(i) == IF i > Len(order) THEN <<>>
                     ELSE entriesOf(byHash[order[i]]) \o concat(i + 1)
    IN  concat(1)

validate_waiting(s, entries, ancestors) ==
    IF s.crashed \/ entries = <<>> THEN s
    ELSE LET proposal == Head(entries)[1]
             entry == Head(entries)[2]
         IN  validate_waiting(
                 call("validate_proposal", s,
                      <<entry[1], proposal, ancestors, entry[2], entry[3]>>),
                 Tail(entries), ancestors)

\* A variant of finalize_if_committed that leaves a committed round unfinalized.
C6_Mutant_finalize_if_committed(s, round_id) == s

\* If the round was committed (quorum of Vote(true)), the proposal is finalized.
finalize_if_committed(s, round_id) ==
    IF s.rounds[round_id].outcome.quorum_votes = Some(TRUE)
    THEN call("finalize_round", s, <<round_id>>)
    ELSE s

\* Unless the round was already skippable (quorum of Vote(false)), the newly
\* accepted proposal causes the next round to start.
start_next_round(s, round_id) ==
    IF s.rounds[round_id].outcome.quorum_votes # Some(FALSE)
    THEN finalize_if_committed(Push(s, ScheduleTimer(s.now, TIMER_ID_ROUND)), round_id)
    ELSE s

\* If we haven't already voted, we vote to commit and finalize the accepted proposal.
\* A variant of vote_if_not_voted that votes to commit in any case.
C34_Mutant_vote_if_not_voted(s, round_id) ==
    IF s.crashed THEN s
    ELSE IF s.active_validator # None
    THEN call("create_message", s, <<round_id, Content_Vote(TRUE)>>)
    ELSE s

vote_if_not_voted(s, round_id) ==
    IF s.crashed THEN s
    ELSE IF s.active_validator # None
            /\ ~has_voted(s.rounds[round_id], Unwrap(s.active_validator))
    THEN call("create_message", s, <<round_id, Content_Vote(TRUE)>>)
    ELSE s

\* Proposed descendants of this block can now be validated.
\* A variant of validate_descendants that keeps the entry of the parent.
C32_Mutant_validate_descendants(s, round_id) ==
    IF s.crashed THEN s
    ELSE IF round_id \in DOMAIN s.proposals_waiting_for_parent
    THEN LET ancestors == ancestor_values(s, round_id)
         IN  IF ancestors = None THEN Crash(s)
             ELSE validate_waiting(s, waiting_entries(s, round_id), Unwrap(ancestors))
    ELSE s

validate_descendants(s, round_id) ==
    IF s.crashed THEN s
    ELSE IF round_id \in DOMAIN s.proposals_waiting_for_parent
    THEN LET entries == waiting_entries(s, round_id)
             s1 == [s EXCEPT !.proposals_waiting_for_parent = MapRemove(@, round_id)]
             ancestors == ancestor_values(s1, round_id)
         IN  IF ancestors = None THEN Crash(s1)
             ELSE validate_waiting(s1, entries, Unwrap(ancestors))
    ELSE s

\* check_proposal from the point where the proposal is known to be accepted.
\* A variant of check_proposal_accepted that counts the accepted block itself twice.
C26_Mutant_check_proposal_accepted(s, round_id, rel_height) ==
    validate_descendants(
        vote_if_not_voted(
            start_next_round(
                [s EXCEPT !.rounds[round_id].outcome.accepted_proposal_height =
                              Some(rel_height + 1)],
                round_id),
            round_id),
        round_id)

check_proposal_accepted(s, round_id, rel_height) ==
    validate_descendants(
        vote_if_not_voted(
            start_next_round(
                [s EXCEPT !.rounds[round_id].outcome.accepted_proposal_height =
                              Some(rel_height)],
                round_id),
            round_id),
        round_id)

\* A variant of all_skippable that accepts a proposal over rounds that are not skippable.
C5_Mutant_all_skippable(s, first_skipped_round_id, round_id) == TRUE

\* A variant of all_skippable that looks at no round after the parent.
C36_Mutant_all_skippable(s, first_skipped_round_id, round_id) ==
    \A skipped_round_id \in {} : is_skippable_round(s, skipped_round_id)

\* All rounds since the parent are skippable.
all_skippable(s, first_skipped_round_id, round_id) ==
    \A skipped_round_id \in first_skipped_round_id..(round_id - 1) :
        is_skippable_round(s, skipped_round_id)

check_proposal(s, round_id) ==
    IF s.crashed THEN s
    ELSE IF ~has_round(s, round_id) \/ s.rounds[round_id].outcome.quorum_echos = None THEN s
    ELSE IF has_accepted_proposal(s.rounds[round_id]) THEN s
    ELSE LET round == s.rounds[round_id]
             hash == Unwrap(round.outcome.quorum_echos)
         IN  IF hash \notin DOMAIN round.proposals THEN s
             ELSE LET proposal == round.proposals[hash].proposal
                      parent == proposal.maybe_parent_round_id
                      parent_height ==
                          IF parent # None /\ has_round(s, Unwrap(parent))
                          THEN s.rounds[Unwrap(parent)].outcome.accepted_proposal_height
                          ELSE None
                      first_skipped_round_id == IF parent = None THEN 0 ELSE Unwrap(parent) + 1
                      rel_height == IF parent = None THEN 0 ELSE Unwrap(parent_height) + 1
                  IN  IF parent # None /\ parent_height = None THEN s
                      ELSE IF ~all_skippable(s, first_skipped_round_id, round_id) THEN s
                      ELSE check_proposal_accepted(s, round_id, rel_height)

check_future_rounds(s, future_round_id, last) ==
    IF s.crashed \/ future_round_id > last THEN s
    ELSE check_future_rounds(call("check_proposal", s, <<future_round_id>>),
                             future_round_id + 1, last)

validate_proposal(s, round_id, proposal, ancestors, sender, signature) ==
    LET validator_idx == leader(round_id)
        parent == IF proposal.maybe_parent_round_id = None THEN None
                  ELSE round_accepted_proposal(s, Unwrap(proposal.maybe_parent_round_id))
    IN  IF s.crashed THEN s
        ELSE IF parent # None /\ Unwrap(parent)[2].timestamp > proposal.timestamp THEN s
        ELSE IF proposal.maybe_block # None /\ needs_validation(Unwrap(proposal.maybe_block))
        THEN LET proposed_block ==
                     ProposedBlock(Unwrap(proposal.maybe_block),
                                   BlockContext(proposal.timestamp, ancestors))
                 entry == <<round_id, proposal.maybe_parent_round_id, sender, signature>>
                 waiting == s.proposals_waiting_for_validation
                 old == IF proposed_block \in DOMAIN waiting THEN waiting[proposed_block]
                        ELSE {}
                 s1 == [s EXCEPT !.proposals_waiting_for_validation =
                                     MapPut(@, proposed_block, old \cup {entry})]
             IN  IF entry \notin old
                 THEN Push(s1, ValidateConsensusValue(sender, proposed_block))
                 ELSE s1
        ELSE call("handle_content", s,
                  <<round_id, Content_Proposal(proposal), validator_idx, signature>>)

\* create_message after the content was handled: the message is gossiped.
gossip(s, message) ==
    IF s.crashed THEN s ELSE Push(s, CreatedGossipMessage(message))

create_message(s, round_id, content) ==
    IF s.crashed \/ s.active_validator = None THEN s
    ELSE LET validator_idx == Unwrap(s.active_validator)
             signature == sign(validator_idx, round_id, content, validator_idx)
         IN  gossip(call("handle_content", s,
                         <<round_id, content, validator_idx, signature>>),
                    Message_Signed(round_id, INSTANCE_ID, content, validator_idx, signature))

last_round_id(s) == IF DOMAIN s.rounds = {} THEN 0 ELSE Max(DOMAIN s.rounds)

set_progress(s) == [s EXCEPT !.progress_detected = TRUE]

\* If we are a validator and have not echoed in the round, we echo the proposal.
echo_if_not_echoed(s, round_id, hash) ==
    IF s.crashed THEN s
    ELSE IF s.active_validator # None
            /\ ~has_echoed(s.rounds[round_id], Unwrap(s.active_validator))
    THEN call("create_message", s, <<round_id, Content_Echo(hash)>>)
    ELSE s

handle_content_proposal(s, round_id, proposal, signature) ==
    LET s1 == round_mut(s, round_id)
        ins == insert_proposal(s1.rounds[round_id], proposal, signature)
        s2 == [s1 EXCEPT !.rounds[round_id] = ins.round]
    IN  IF ins.hash = None THEN s2
        ELSE echo_if_not_echoed(call("check_proposal", set_progress(s2), <<round_id>>),
                                round_id, Unwrap(ins.hash))

handle_content_echo(s, round_id, hash, validator_idx, signature) ==
    LET others == IF has_round(s, round_id)
                  THEN {other_hash \in DOMAIN s.rounds[round_id].echos :
                            /\ validator_idx \in DOMAIN s.rounds[round_id].echos[other_hash]
                            /\ other_hash # hash}
                  ELSE {}
    IN  IF others # {}
        THEN LET other_hash == Pick(others, s.first)
             IN  call("handle_fault", s,
                      <<round_id, validator_idx, Content_Echo(hash), signature,
                        Content_Echo(other_hash),
                        s.rounds[round_id].echos[other_hash][validator_idx]>>)
        ELSE LET s1 == round_mut(s, round_id)
                 ins == insert_echo(s1.rounds[round_id], hash, validator_idx, signature)
                 s2 == [s1 EXCEPT !.rounds[round_id] = ins.round]
             IN  IF ~ins.new THEN s2
                 ELSE IF /\ s2.rounds[round_id].outcome.quorum_echos = None
                         /\ is_quorum(s2.faults, DOMAIN s2.rounds[round_id].echos[hash])
                 THEN call("check_proposal",
                           [set_progress(s2) EXCEPT
                                !.rounds[round_id].outcome.quorum_echos = Some(hash)],
                           <<round_id>>)
                 ELSE set_progress(s2)

handle_content_vote(s, round_id, vote, validator_idx, signature) ==
    LET other_signature == IF has_round(s, round_id)
                           THEN s.rounds[round_id].votes[~vote][validator_idx]
                           ELSE None
    IN  IF other_signature # None
        THEN call("handle_fault", s,
                  <<round_id, validator_idx, Content_Vote(vote), signature,
                    Content_Vote(~vote), Unwrap(other_signature)>>)
        ELSE LET s1 == round_mut(s, round_id)
                 ins == insert_vote(s1.rounds[round_id], vote, validator_idx, signature)
                 s2 == [s1 EXCEPT !.rounds[round_id] = ins.round]
             IN  IF ~ins.new THEN s2
                 ELSE IF ~(/\ s2.rounds[round_id].outcome.quorum_votes = None
                           /\ is_quorum(s2.faults,
                                        keys_some(s2.rounds[round_id].votes[vote])))
                 THEN set_progress(s2)
                 ELSE LET s3 == [set_progress(s2) EXCEPT
                                     !.rounds[round_id].outcome.quorum_votes = Some(vote)]
                      IN  IF vote
                          THEN IF has_accepted_proposal(s3.rounds[round_id])
                               THEN call("finalize_round", s3, <<round_id>>)
                               ELSE s3
                          ELSE LET s4 == IF /\ ~has_accepted_proposal(s3.rounds[round_id])
                                            /\ current_round(s3) > round_id
                                         THEN Push(s3, ScheduleTimer(s3.now, TIMER_ID_ROUND))
                                         ELSE s3
                               IN  check_future_rounds(s4, round_id + 1, last_round_id(s4))

handle_content(s, round_id, content, validator_idx, signature) ==
    IF s.crashed THEN s
    ELSE CASE content.type = "Proposal" ->
                  handle_content_proposal(s, round_id, content.proposal, signature)
           [] content.type = "Echo" ->
                  handle_content_echo(s, round_id, content.hash, validator_idx, signature)
           [] content.type = "Vote" ->
                  handle_content_vote(s, round_id, content.vote, validator_idx, signature)

\* Removes all Votes and Echos of the faulty validator from the round.
purge_validator(round, validator_idx) ==
    LET remaining == {hash \in DOMAIN round.echos :
                          DOMAIN round.echos[hash] # {validator_idx}}
    IN  [round EXCEPT
             !.votes = [vote \in BOOLEAN |->
                           [round.votes[vote] EXCEPT ![validator_idx] = None]],
             !.echos = [hash \in remaining |-> MapRemove(round.echos[hash], validator_idx)]]

\* The double-signing made us cross the quorum threshold of Echos.
fault_echo_quorum(s, round_id) ==
    LET quorums == {hash \in DOMAIN s.rounds[round_id].echos :
                        is_quorum(s.faults, DOMAIN s.rounds[round_id].echos[hash])}
    IN  IF s.rounds[round_id].outcome.quorum_echos = None /\ quorums # {}
        THEN [s EXCEPT !.rounds[round_id].outcome.quorum_echos =
                           Some(Pick(quorums, s.first))]
        ELSE s

\* The new fault made us cross the quorum threshold for committing the round.
\* A variant of fault_commit_quorum that overwrites a recorded quorum of votes.
C35_Mutant_fault_commit_quorum(s, round_id) ==
    IF is_quorum(s.faults, keys_some(s.rounds[round_id].votes[TRUE]))
    THEN LET s1 == [s EXCEPT !.rounds[round_id].outcome.quorum_votes = Some(TRUE)]
         IN  IF has_accepted_proposal(s1.rounds[round_id])
             THEN call("finalize_round", s1, <<round_id>>)
             ELSE s1
    ELSE s

fault_commit_quorum(s, round_id) ==
    IF /\ s.rounds[round_id].outcome.quorum_votes = None
       /\ is_quorum(s.faults, keys_some(s.rounds[round_id].votes[TRUE]))
    THEN LET s1 == [s EXCEPT !.rounds[round_id].outcome.quorum_votes = Some(TRUE)]
         IN  IF has_accepted_proposal(s1.rounds[round_id])
             THEN call("finalize_round", s1, <<round_id>>)
             ELSE s1
    ELSE s

\* The new fault made us cross the quorum threshold for making the round skippable.
fault_skip_quorum(s, round_id) ==
    IF s.crashed THEN s
    ELSE IF /\ s.rounds[round_id].outcome.quorum_votes = None
            /\ is_quorum(s.faults, keys_some(s.rounds[round_id].votes[FALSE]))
    THEN LET s1 == [s EXCEPT !.rounds[round_id].outcome.quorum_votes = Some(FALSE)]
         IN  IF /\ ~has_accepted_proposal(s1.rounds[round_id])
                /\ current_round(s1) > round_id
             THEN Push(s1, ScheduleTimer(s1.now, TIMER_ID_ROUND))
             ELSE s1
    ELSE s

\* One iteration of the re-evaluation loop of handle_fault.
handle_fault_round(s, round_id) ==
    IF ~has_round(s, round_id) THEN Crash(s)
    ELSE call("check_proposal",
              fault_skip_quorum(
                  fault_commit_quorum(fault_echo_quorum(s, round_id), round_id),
                  round_id),
              <<round_id>>)

handle_fault_rounds(s, round_id, last) ==
    IF s.crashed \/ round_id > last THEN s
    ELSE handle_fault_rounds(handle_fault_round(s, round_id), round_id + 1, last)

\* A variant of ftt_exceeded that never reports the exceeded threshold.
C8_Mutant_ftt_exceeded(s) == s

\* The weight of the faulty validators now exceeds the fault tolerance threshold.
ftt_exceeded(s) ==
    IF faulty_weight(s.faults) > ftt THEN Push(s, FttExceeded) ELSE s

handle_fault(s, round_id, validator_idx, content0, signature0, content1, signature1) ==
    IF s.crashed \/ validator_idx \notin DOMAIN weights THEN s
    ELSE IF validator_idx \in DOMAIN s.faults /\ is_direct(s.faults[validator_idx]) THEN s
    ELSE LET msg0 == Message_Signed(round_id, INSTANCE_ID, content0, validator_idx, signature0)
             msg1 == Message_Signed(round_id, INSTANCE_ID, content1, validator_idx, signature1)
             s1 == [s EXCEPT
                        !.outcomes = @ \o <<CreatedGossipMessage(msg0),
                                            CreatedGossipMessage(msg1),
                                            NewEvidence(validator_idx)>>,
                        !.faults = MapPut(@, validator_idx, Fault_Direct(msg0, msg1)),
                        !.progress_detected = TRUE]
             s2 == ftt_exceeded(s1)
             s3 == [s2 EXCEPT !.rounds = [r \in DOMAIN @ |-> purge_validator(@[r], validator_idx)]]
         IN  handle_fault_rounds(s3, s3.first_non_finalized_round_id, last_round_id(s3))

call(op, s, args) ==
    CASE op = "finalize_round" -> finalize_round(s, args[1])
      [] op = "check_proposal" -> check_proposal(s, args[1])
      [] op = "validate_proposal" ->
             validate_proposal(s, args[1], args[2], args[3], args[4], args[5])
      [] op = "create_message" -> create_message(s, args[1], args[2])
      [] op = "handle_content" -> handle_content(s, args[1], args[2], args[3], args[4])
      [] op = "handle_fault" ->
             handle_fault(s, args[1], args[2], args[3], args[4], args[5], args[6])

-----------------------------------------------------------------------------
(* SimpleConsensus: incoming messages *)

\* A variant of Invalid that forgets the proposals waiting for their parent.
C11_Mutant_Invalid(s, msg, sender, error) ==
    Push([s EXCEPT !.proposals_waiting_for_parent = EmptyMap],
         InvalidIncomingMessage(msg, sender, error))

Invalid(s, msg, sender, error) == Push(s, InvalidIncomingMessage(msg, sender, error))

\* The proposal is validated if its ancestors are known, and waits for its
\* parent otherwise.
validate_or_wait(s, round_id, proposal, signature, sender) ==
    LET parent == proposal.maybe_parent_round_id
        ancestors == IF parent = None THEN Some(<<>>)
                     ELSE ancestor_values(s, Unwrap(parent))
    IN  IF s.crashed THEN s
        ELSE IF ancestors = None
        THEN LET waiting == s.proposals_waiting_for_parent
                 byProposal == IF Unwrap(parent) \in DOMAIN waiting
                               THEN waiting[Unwrap(parent)] ELSE EmptyMap
                 entries == IF proposal \in DOMAIN byProposal
                            THEN byProposal[proposal] ELSE {}
             IN  [s EXCEPT !.proposals_waiting_for_parent =
                      MapPut(@, Unwrap(parent),
                             MapPut(byProposal, proposal,
                                    entries \cup {<<round_id, sender, signature>>}))]
        ELSE validate_proposal(s, round_id, proposal, Unwrap(ancestors), sender, signature)

\* A variant of handle_signed_proposal without the leader check.
C29_Mutant_handle_signed_proposal(s, msg, round_id, proposal, validator_idx, signature, sender) ==
    IF proposal.timestamp > s.now + PENDING_VERTEX_TIMEOUT THEN s
    ELSE IF /\ proposal.maybe_parent_round_id # None
            /\ Unwrap(proposal.maybe_parent_round_id) >= round_id
    THEN Invalid(s, msg, sender, "invalid proposal: parent is not from an earlier round")
    ELSE validate_or_wait(s, round_id, proposal, signature, sender)

handle_signed_proposal(s, msg, round_id, proposal, validator_idx, signature, sender) ==
    IF proposal.timestamp > s.now + PENDING_VERTEX_TIMEOUT THEN s
    ELSE IF validator_idx # leader(round_id) THEN Invalid(s, msg, sender, "wrong leader")
    ELSE IF /\ proposal.maybe_parent_round_id # None
            /\ Unwrap(proposal.maybe_parent_round_id) >= round_id
    THEN Invalid(s, msg, sender, "invalid proposal: parent is not from an earlier round")
    ELSE LET hash == proposal_hash(proposal)
             others == IF has_round(s, round_id)
                       THEN DOMAIN s.rounds[round_id].proposals \ {hash}
                       ELSE {}
         IN  validate_or_wait(
                 IF others # {}
                 THEN LET other == s.rounds[round_id].proposals[Pick(others, s.first)]
                      IN  handle_fault(s, round_id, validator_idx,
                                       Content_Proposal(proposal), signature,
                                       Content_Proposal(other.proposal), other.signature)
                 ELSE s,
                 round_id, proposal, signature, sender)

handle_signed_message(s, msg, round_id, content, validator_idx, signature, sender) ==
    IF validator_idx \notin DOMAIN weights
    THEN Invalid(s, msg, sender, "invalid validator index")
    ELSE IF /\ validator_idx \in DOMAIN s.faults
            /\ (is_banned(s.faults[validator_idx]) \/ ~is_proposal(content))
    THEN s
    ELSE IF round_id > current_round(s) + MAX_FUTURE_ROUNDS THEN s
    ELSE IF has_round(s, round_id) /\ contains(s.rounds[round_id], content, validator_idx)
    THEN s
    ELSE IF ~verify_signature(<<round_id, INSTANCE_ID, content, validator_idx>>,
                              validator_idx, signature)
    THEN Invalid(s, msg, sender, "invalid signature")
    ELSE IF is_proposal(content)
    THEN handle_signed_proposal(s, msg, round_id, content.proposal, validator_idx,
                                signature, sender)
    ELSE handle_content(s, round_id, content, validator_idx, signature)

-----------------------------------------------------------------------------
(* SimpleConsensus: synchronization.  A u128 bit field is the set of the       *)
(* positions of its 1 bits.                                                    *)

\* The number of bits of a u128.
BIT_FIELD_WIDTH == 128

Min(S) == CHOOSE x \in S : \A y \in S : x <= y

\* The bit of validator v_idx in a bit field that starts at first_idx.
bit_number(first_idx, v_idx) ==
    IF v_idx >= first_idx THEN v_idx - first_idx
    ELSE v_idx + Cardinality(DOMAIN weights) - first_idx

validator_bit_field(first_idx, index_iter) ==
    {bit_number(first_idx, v_idx) :
         v_idx \in {v \in index_iter : bit_number(first_idx, v) < BIT_FIELD_WIDTH}}

\* The validator indexes the iterator yields, in its order.
RECURSIVE iter_validator_bit_field_from(_, _)
iter_validator_bit_field_from(idx, bit_field) ==
    IF bit_field = {} THEN <<>>
    ELSE LET zeros == Min(bit_field)
             next_idx == (idx + zeros) % Cardinality(DOMAIN weights)
         IN  <<next_idx>>
                 \o iter_validator_bit_field_from(
                        next_idx, {b - zeros : b \in bit_field} \ {0})

iter_validator_bit_field(first_idx, bit_field) ==
    iter_validator_bit_field_from(first_idx, bit_field)

\* The elements of a set of numbers in ascending order (BTreeMap iteration).
RECURSIVE Ascending(_)
Ascending(S) ==
    IF S = {} THEN <<>> ELSE <<Min(S)>> \o Ascending(S \ {Min(S)})

\* The (content, validator_idx, signature) triples of the Echos and the
\* proposal handle_sync_state sends; None if indexing round.echos panics.
sync_echo_contents(round, round_id, maybe_hash, has_proposal, first_validator_idx, echos) ==
    IF maybe_hash # None
    THEN LET hash == Unwrap(maybe_hash)
             missing_echos ==
                 IF hash \in DOMAIN round.echos
                 THEN iter_validator_bit_field(
                          first_validator_idx,
                          validator_bit_field(first_validator_idx,
                                              DOMAIN round.echos[hash]) \ echos)
                 ELSE <<>>
         IN  Some([i \in 1..Len(missing_echos) |->
                       <<Content_Echo(hash), missing_echos[i],
                         round.echos[hash][missing_echos[i]]>>]
                  \o (IF ~has_proposal /\ hash \in DOMAIN round.proposals
                      THEN <<<<Content_Proposal(round.proposals[hash].proposal),
                               leader(round_id), round.proposals[hash].signature>>>>
                      ELSE <<>>))
    ELSE IF round.outcome.quorum_echos # None
    THEN LET hash == Unwrap(round.outcome.quorum_echos)
         IN  IF hash \notin DOMAIN round.echos THEN None
             ELSE LET v_idxs == Ascending(DOMAIN round.echos[hash])
                  IN  Some([i \in 1..Len(v_idxs) |->
                                <<Content_Echo(hash), v_idxs[i],
                                  round.echos[hash][v_idxs[i]]>>])
    ELSE Some(<<>>)

sync_vote_contents(round, vote, first_validator_idx, votes) ==
    LET missing_votes ==
            iter_validator_bit_field(
                first_validator_idx,
                validator_bit_field(first_validator_idx, keys_some(round.votes[vote]))
                    \ votes)
    IN  [i \in 1..Len(missing_votes) |->
             <<Content_Vote(vote), missing_votes[i],
               Unwrap(round.votes[vote][missing_votes[i]])>>]

RECURSIVE sync_fault_outcomes(_, _, _)
sync_fault_outcomes(fs, v_idxs, sender) ==
    IF v_idxs = <<>> THEN <<>>
    ELSE LET fault == fs[Head(v_idxs)]
         IN  (IF is_banned(fault) THEN <<>>
              ELSE IF is_direct(fault)
              THEN <<CreatedTargetedMessage(fault.msg0, sender),
                     CreatedTargetedMessage(fault.msg1, sender)>>
              ELSE <<SendEvidence(sender, Head(v_idxs))>>)
                 \o sync_fault_outcomes(fs, Tail(v_idxs), sender)

handle_sync_state(s, round_id, maybe_hash, has_proposal, first_validator_idx, echos, true_votes, false_votes, faulty, sender) ==
    IF ~has_round(s, round_id) THEN s
    ELSE IF first_validator_idx >= Cardinality(DOMAIN weights) THEN s
    ELSE LET round == s.rounds[round_id]
             echo_contents ==
                 sync_echo_contents(round, round_id, maybe_hash, has_proposal,
                                    first_validator_idx, echos)
             contents ==
                 Unwrap(echo_contents)
                     \o sync_vote_contents(round, TRUE, first_validator_idx, true_votes)
                     \o sync_vote_contents(round, FALSE, first_validator_idx, false_votes)
             missing_faulty ==
                 validator_bit_field(first_validator_idx, DOMAIN s.faults) \ faulty
         IN  IF echo_contents = None THEN Crash(s)
             ELSE [s EXCEPT !.outcomes =
                      @ \o [i \in 1..Len(contents) |->
                                CreatedTargetedMessage(
                                    Message_Signed(round_id, INSTANCE_ID, contents[i][1],
                                                   contents[i][2], contents[i][3]),
                                    sender)]
                        \o sync_fault_outcomes(
                               s.faults,
                               iter_validator_bit_field(first_validator_idx,
                                                        missing_faulty),
                               sender)]

handle_message(s, sender, msg) ==
    IF ~deserialize_ok(msg) THEN Invalid(s, msg, sender, "deserialize")
    ELSE LET message == deserialize(msg)
         IN  IF message.instance_id # INSTANCE_ID
             THEN Invalid(s, msg, sender, "invalid instance ID")
             ELSE IF message.variant = "SyncState"
             THEN handle_sync_state(s, message.round_id, message.proposal_hash,
                                    message.proposal, message.first_validator_idx,
                                    message.echos, message.true_votes,
                                    message.false_votes, message.faulty, sender)
             ELSE handle_signed_message(s, msg, message.round_id, message.content,
                                        message.validator_idx, message.signature, sender)

-----------------------------------------------------------------------------
(* SimpleConsensus: timers, proposing, validation results *)

\* A variant of handle_timer_round that builds on a dummy proposal.
C31_Mutant_handle_timer_round(s) ==
    LET s1 == IF ~finalized_switch_block(s)
              THEN Push([s EXCEPT !.current_timeout = s.now + PROPOSAL_TIMEOUT],
                        ScheduleTimer(s.now + PROPOSAL_TIMEOUT, TIMER_ID_PROPOSAL_TIMEOUT))
              ELSE s
        round_id == current_round(s1)
        s2 == round_mut(s1, round_id)
        parents == {r \in 0..(round_id - 1) : round_accepted_proposal(s2, r) # None}
    IN  IF ~(/\ s1.active_validator # None
             /\ Unwrap(s1.active_validator) = leader(round_id)
             /\ s1.pending_proposal_round_ids = None)
        THEN s1
        ELSE IF s2.rounds[round_id].proposals # EmptyMap THEN s2
        ELSE IF parents = {}
        THEN Push([s2 EXCEPT !.pending_proposal_round_ids = Some(<<round_id, None>>)],
                  CreateNewBlock(BlockContext(s2.now, <<>>)))
        ELSE LET parent_round_id == Max(parents)
                 parent == Unwrap(round_accepted_proposal(s2, parent_round_id))[2]
                 ancestors == ancestor_values(s2, parent_round_id)
             IN  IF accepted_switch_block(s2, parent_round_id)
                 THEN s2
                 ELSE IF ancestors = None THEN Crash(s2)
                 ELSE Push([s2 EXCEPT !.pending_proposal_round_ids =
                                          Some(<<round_id, Some(parent_round_id)>>)],
                           CreateNewBlock(BlockContext(Max({parent.timestamp, s2.now}),
                                                       Unwrap(ancestors))))

handle_timer_round(s) ==
    LET s1 == IF ~finalized_switch_block(s)
              THEN Push([s EXCEPT !.current_timeout = s.now + PROPOSAL_TIMEOUT],
                        ScheduleTimer(s.now + PROPOSAL_TIMEOUT, TIMER_ID_PROPOSAL_TIMEOUT))
              ELSE s
        round_id == current_round(s1)
        s2 == round_mut(s1, round_id)
        parents == {r \in 0..(round_id - 1) : round_accepted_proposal(s2, r) # None}
    IN  IF ~(/\ s1.active_validator # None
             /\ Unwrap(s1.active_validator) = leader(round_id)
             /\ s1.pending_proposal_round_ids = None)
        THEN s1
        ELSE IF s2.rounds[round_id].proposals # EmptyMap THEN s2
        ELSE IF parents = {}
        THEN Push([s2 EXCEPT !.pending_proposal_round_ids = Some(<<round_id, None>>)],
                  CreateNewBlock(BlockContext(s2.now, <<>>)))
        ELSE LET parent_round_id == Max(parents)
                 parent == Unwrap(round_accepted_proposal(s2, parent_round_id))[2]
                 ancestors == ancestor_values(s2, parent_round_id)
             IN  IF \/ accepted_switch_block(s2, parent_round_id)
                    \/ accepted_dummy_proposal(s2, parent_round_id)
                 THEN s2
                 ELSE IF ancestors = None THEN Crash(s2)
                 ELSE Push([s2 EXCEPT !.pending_proposal_round_ids =
                                          Some(<<round_id, Some(parent_round_id)>>)],
                           CreateNewBlock(BlockContext(Max({parent.timestamp, s2.now}),
                                                       Unwrap(ancestors))))

handle_timer_proposal_timeout(s) ==
    LET round_id == current_round(s)
        s1 == round_mut(s, round_id)
    IN  IF /\ s1.active_validator # None
           /\ s1.now >= s1.current_timeout
           /\ ~has_voted(s1.rounds[round_id], Unwrap(s1.active_validator))
        THEN create_message(s1, round_id, Content_Vote(FALSE))
        ELSE s1

\* TIMER_ID_SYNC_PEER and TIMER_ID_LOG_PARTICIPATION read the state only and
\* are not part of the model.
handle_timer(s, timer_id) ==
    CASE timer_id = TIMER_ID_ROUND -> handle_timer_round(s)
      [] timer_id = TIMER_ID_PROPOSAL_TIMEOUT -> handle_timer_proposal_timeout(s)

propose(s, proposed_block) ==
    IF s.pending_proposal_round_ids = None THEN s
    ELSE LET proposal_round_id == Unwrap(s.pending_proposal_round_ids)[1]
             maybe_parent_round_id == Unwrap(s.pending_proposal_round_ids)[2]
             s1 == [s EXCEPT !.pending_proposal_round_ids = None]
         IN  IF ~has_round(s1, proposal_round_id) THEN Crash(s1)
             ELSE IF /\ s1.rounds[proposal_round_id].proposals = EmptyMap
                     /\ s1.active_validator # None
                     /\ Unwrap(s1.active_validator) = leader(proposal_round_id)
             THEN create_message(s1, proposal_round_id,
                      Content_Proposal([timestamp |-> proposed_block.context.timestamp,
                                        maybe_block |-> Some(proposed_block.value),
                                        maybe_parent_round_id |-> maybe_parent_round_id]))
             ELSE s1

RECURSIVE resolve_valid(_, _, _)
resolve_valid(s, proposed_block, entries) ==
    IF s.crashed \/ entries = <<>> THEN s
    ELSE LET round_id == Head(entries)[1]
             proposal == [timestamp |-> proposed_block.context.timestamp,
                          maybe_block |-> Some(proposed_block.value),
                          maybe_parent_round_id |-> Head(entries)[2]]
         IN  resolve_valid(
                 handle_content(s, round_id, Content_Proposal(proposal), leader(round_id),
                                Head(entries)[4]),
                 proposed_block, Tail(entries))

\* The HashSet of waiting entries is iterated starting with an entry of round
\* `first_round` if there is one.
resolve_validity(s, proposed_block, valid, first_round) ==
    LET waiting == s.proposals_waiting_for_validation
        entries == IF proposed_block \in DOMAIN waiting THEN waiting[proposed_block] ELSE {}
        firsts == {e \in entries : e[1] = first_round}
        head == IF firsts = {} THEN <<>> ELSE <<CHOOSE e \in firsts : TRUE>>
        order == head \o SeqOf(entries \ {head[i] : i \in 1..Len(head)})
        s1 == [s EXCEPT !.proposals_waiting_for_validation =
                            IF proposed_block \in DOMAIN waiting
                            THEN MapRemove(@, proposed_block) ELSE @]
    IN  IF valid THEN resolve_valid(s1, proposed_block, order) ELSE s1

activate_validator(s, our_id) ==
    IF our_id \in DOMAIN weights
    THEN Push([s EXCEPT !.active_validator = Some(our_id)],
              ScheduleTimer(Max({s.now, START_TIMESTAMP}), TIMER_ID_ROUND))
    ELSE s

\* A variant of mark_faulty that overwrites the fault it finds.
C33_Mutant_mark_faulty(s, vid) ==
    IF vid \in DOMAIN weights
    THEN [s EXCEPT !.faults = MapPut(@, vid, Fault_Indirect)]
    ELSE s

mark_faulty(s, vid) ==
    IF vid \in DOMAIN weights /\ vid \notin DOMAIN s.faults
    THEN [s EXCEPT !.faults = MapPut(@, vid, Fault_Indirect)]
    ELSE s

-----------------------------------------------------------------------------
(* The validator matrix.  A Ratio<u64> is its numerator and denominator;    *)
(* Ratio::new reduces it, as do the sum and the product of two ratios.      *)

RECURSIVE gcd(_, _)
gcd(a, b) == IF b = 0 THEN a ELSE gcd(b, a % b)

lcm(a, b) == IF a = 0 \/ b = 0 THEN 0 ELSE a * (b \div gcd(a, b))

Ratio_new(numer, denom) ==
    [numer |-> numer \div gcd(numer, denom), denom |-> denom \div gcd(numer, denom)]

Ratio_from_integer(n) == [numer |-> n, denom |-> 1]

Ratio_add(lhs, rhs) ==
    IF lhs.denom = rhs.denom
    THEN Ratio_new(lhs.numer + rhs.numer, rhs.denom)
    ELSE LET common == lcm(lhs.denom, rhs.denom)
         IN  Ratio_new(lhs.numer * (common \div lhs.denom)
                           + rhs.numer * (common \div rhs.denom),
                       common)

Ratio_mul(lhs, rhs) ==
    LET gcd_ad == gcd(lhs.numer, rhs.denom)
        gcd_bc == gcd(lhs.denom, rhs.numer)
    IN  Ratio_new((lhs.numer \div gcd_ad) * (rhs.numer \div gcd_bc),
                  (lhs.denom \div gcd_bc) * (rhs.denom \div gcd_ad))

Insufficient == "Insufficient"

Sufficient == "Sufficient"

Strict == "Strict"

EraValidatorWeights_new(era_id, validator_weights, finality_threshold_fraction) ==
    [era_id |-> era_id,
     validator_weights |-> validator_weights,
     finality_threshold_fraction |-> finality_threshold_fraction]

get_total_weight(ev) == SumOver(ev.validator_weights, DOMAIN ev.validator_weights)

get_weight(ev, public_key) ==
    IF public_key \in DOMAIN ev.validator_weights
    THEN ev.validator_weights[public_key]
    ELSE 0

\* The sum of get_weight over the signatures, each counted as often as it occurs.
RECURSIVE signature_weight(_, _)
signature_weight(ev, signatures) ==
    IF signatures = <<>> THEN 0
    ELSE get_weight(ev, Head(signatures).public_key)
             + signature_weight(ev, Tail(signatures))

C24_Mutant_EraValidatorWeights_have_sufficient_weight(ev, signatures) ==
    LET f == ev.finality_threshold_fraction
        strict == [numer |-> (f.denom + f.numer) \div 2, denom |-> f.denom]
    IN  IF signature_weight(ev, signatures) * strict.denom
               >= get_total_weight(ev) * strict.numer
        THEN Strict
        ELSE IF signature_weight(ev, signatures) * f.denom
                    >= get_total_weight(ev) * f.numer
        THEN Sufficient
        ELSE Insufficient

EraValidatorWeights_have_sufficient_weight(ev, signatures) ==
    LET f == ev.finality_threshold_fraction
        strict == Ratio_mul(Ratio_new(1, 2), Ratio_add(Ratio_from_integer(1), f))
    IN  IF signature_weight(ev, signatures) * strict.denom
               >= get_total_weight(ev) * strict.numer
        THEN Strict
        ELSE IF signature_weight(ev, signatures) * f.denom
                    >= get_total_weight(ev) * f.numer
        THEN Sufficient
        ELSE Insufficient

ValidatorMatrix_new(finality_threshold_fraction) ==
    [inner |-> EmptyMap, finality_threshold_fraction |-> finality_threshold_fraction]

register_era_validator_weights(m, validators) ==
    [m EXCEPT !.inner = MapPut(@, validators.era_id, validators)]

C25_Mutant_register_validator_weights(m, era_id, validator_weights) ==
    register_era_validator_weights(
        m, EraValidatorWeights_new(era_id, validator_weights,
                                   m.finality_threshold_fraction))

register_validator_weights(m, era_id, validator_weights) ==
    IF era_id \notin DOMAIN m.inner
    THEN register_era_validator_weights(
             m, EraValidatorWeights_new(era_id, validator_weights,
                                        m.finality_threshold_fraction))
    ELSE m

remove_era(m, era_id) == [m EXCEPT !.inner = MapRemove(@, era_id)]

\* BTreeMap::split_off: the entries with a key not below the given one remain.
remove_eras(m, earliest_era_to_keep) ==
    [m EXCEPT !.inner = [e \in {k \in DOMAIN @ : k >= earliest_era_to_keep} |-> @[e]]]

have_sufficient_weight(m, era_id, signatures) ==
    IF era_id \in DOMAIN m.inner
    THEN Some(EraValidatorWeights_have_sufficient_weight(m.inner[era_id], signatures))
    ELSE None

-----------------------------------------------------------------------------
(* juliet: the incoming message parser (MessageReader).  A buffer is the    *)
(* sequence of frames it holds; a frame is its header as Header::parse      *)
(* returns it, and what the multiframe receiver finds behind the header.    *)

\* Largest request_limit of a channel.
RequestLimit == 3

UNKNOWN_CHANNEL == 0

UNKNOWN_ID == 0

Header_new(kind, channel, id) == [kind |-> kind, channel |-> channel, id |-> id]

Header_new_error(error_kind, channel, id) ==
    [kind |-> "Error", error_kind |-> error_kind, channel |-> channel, id |-> id]

with_err(header, error_kind) ==
    Header_new_error(error_kind, header.channel, header.id)

is_error(header) == header.kind = "Error"

Success(value) == [outcome |-> "Success", value |-> value]

Fatal(err) == [outcome |-> "Fatal", err |-> err]

Incomplete == [outcome |-> "Incomplete"]

\* unimplemented!() was reached.
Panicked == [outcome |-> "panic"]

ErrorReceived(header) == [read |-> "ErrorReceived", header |-> header]

NewRequest(id, payload) == [read |-> "NewRequest", id |-> id, payload |-> payload]

ReceivedResponse(id, payload) ==
    [read |-> "ReceivedResponse", id |-> id, payload |-> payload]

RequestCancellation(id) == [read |-> "RequestCancellation", id |-> id]

ResponseCancellation(id) == [read |-> "ResponseCancellation", id |-> id]

\* MultiframeReceiver: idle, or reassembling the payload of one (id, kind).
Ready == [state |-> "Ready"]

InProgress(header) == [state |-> "InProgress", id |-> header.id, kind |-> header.kind]

is_new_transfer(receiver, header) ==
    \/ receiver.state = "Ready"
    \/ receiver.id # header.id
    \/ receiver.kind # header.kind

\* MultiframeReceiver::accept on a frame whose segment is cut short in the
\* buffer, exceeds the payload cap, is one of several, or is the last one.
accept(receiver, header, segment, oversize_error_kind) ==
    CASE segment = "short" ->
             [receiver |-> receiver, outcome |-> Incomplete]
      [] segment = "oversize" ->
             [receiver |-> receiver,
              outcome |-> Fatal(with_err(header, oversize_error_kind))]
      [] segment = "partial" ->
             [receiver |-> InProgress(header), outcome |-> Success(None)]
      [] OTHER ->
             [receiver |-> Ready, outcome |-> Success(Some("payload"))]

Channel_new(request_limit) ==
    [incoming_requests |-> {},
     outgoing_requests |-> {},
     current_multiframe_receive |-> Ready,
     cancellation_allowance |-> 0,
     config |-> [request_limit |-> request_limit]]

in_flight_requests(channel) == Cardinality(channel.incoming_requests)

C17_Mutant_is_at_max_requests(channel) == FALSE

is_at_max_requests(channel) ==
    in_flight_requests(channel) = channel.config.request_limit

C18_Mutant_increment_cancellation_allowance(channel) ==
    [channel EXCEPT !.cancellation_allowance = @ + 1]

increment_cancellation_allowance(channel) ==
    IF channel.cancellation_allowance < channel.config.request_limit
    THEN [channel EXCEPT !.cancellation_allowance = @ + 1]
    ELSE channel

\* HashSet::insert: the set afterwards, and whether the value was newly inserted.
HashSet_insert(set, value) ==
    [set |-> set \cup {value}, newly_inserted |-> value \notin set]

\* HashSet::remove: the set afterwards, and whether the value was present.
HashSet_remove(set, value) ==
    [set |-> set \ {value}, was_present |-> value \in set]

\* A match arm leaves the channel as `channel` and returns `outcome`, or with
\* None goes round the loop to read the next frame.
Arm(channel, outcome) == [channel |-> channel, outcome |-> outcome]

process_Request(channel, header) ==
    IF is_at_max_requests(channel)
    THEN Arm(channel, Some(Fatal(with_err(header, "RequestLimitExceeded"))))
    ELSE LET inserted == HashSet_insert(channel.incoming_requests, header.id)
             channel1 == [channel EXCEPT !.incoming_requests = inserted.set]
         IN  IF inserted.newly_inserted
             THEN Arm(channel1, Some(Fatal(with_err(header, "DuplicateRequest"))))
             ELSE Arm(increment_cancellation_allowance(channel1),
                      Some(Success(NewRequest(header.id, None))))

C22_Mutant_process_Response(channel, header) ==
    IF header.id \notin channel.outgoing_requests
    THEN Arm(channel, Some(Fatal(with_err(header, "FictitiousRequest"))))
    ELSE Arm(channel, Some(Success(ReceivedResponse(header.id, None))))

process_Response(channel, header) ==
    LET removed == HashSet_remove(channel.outgoing_requests, header.id)
        channel1 == [channel EXCEPT !.outgoing_requests = removed.set]
    IN  IF ~removed.was_present
        THEN Arm(channel1, Some(Fatal(with_err(header, "FictitiousRequest"))))
        ELSE Arm(channel1, Some(Success(ReceivedResponse(header.id, None))))

\* Kind::RequestPl once the frame passed the gate.
process_RequestPl_accept(channel, header, segment, is_new_request) ==
    LET accepted == accept(channel.current_multiframe_receive, header, segment,
                           "RequestTooLarge")
        channel1 == [channel EXCEPT !.current_multiframe_receive = accepted.receiver]
        inserted == HashSet_insert(channel.incoming_requests, header.id)
        channel2 == [channel1 EXCEPT !.incoming_requests = inserted.set]
        channel3 == IF is_new_request
                    THEN increment_cancellation_allowance(channel2)
                    ELSE channel1
    IN  IF accepted.outcome.outcome # "Success"
        THEN Arm(channel1, Some(accepted.outcome))
        ELSE IF is_new_request /\ inserted.newly_inserted
        THEN Arm(channel2, Some(Fatal(with_err(header, "DuplicateRequest"))))
        ELSE IF accepted.outcome.value # None
        THEN Arm(channel3, Some(Success(NewRequest(header.id, accepted.outcome.value))))
        ELSE Arm(channel3, None)

process_RequestPl(channel, header, segment) ==
    LET is_new_request == is_new_transfer(channel.current_multiframe_receive, header)
    IN  IF is_new_request /\ is_at_max_requests(channel)
        THEN Arm(channel, Some(Fatal(with_err(header, "RequestLimitExceeded"))))
        ELSE IF is_new_request /\ header.id \in channel.incoming_requests
        THEN Arm(channel, Some(Fatal(with_err(header, "DuplicateRequest"))))
        ELSE process_RequestPl_accept(channel, header, segment, is_new_request)

\* Kind::ResponsePl once the frame passed the check for a bogus response.
process_ResponsePl_accept(channel, header, segment, is_new_response) ==
    LET accepted == accept(channel.current_multiframe_receive, header, segment,
                           "ResponseTooLarge")
        channel1 == [channel EXCEPT !.current_multiframe_receive = accepted.receiver]
        removed == HashSet_remove(channel.outgoing_requests, header.id)
        channel2 == IF is_new_response
                    THEN [channel1 EXCEPT !.outgoing_requests = removed.set]
                    ELSE channel1
    IN  IF accepted.outcome.outcome # "Success"
        THEN Arm(channel1, Some(accepted.outcome))
        ELSE IF is_new_response /\ ~removed.was_present
        THEN Arm(channel2, Some(Fatal(with_err(header, "FictitiousRequest"))))
        ELSE IF accepted.outcome.value # None
        THEN Arm(channel2,
                 Some(Success(ReceivedResponse(header.id, accepted.outcome.value))))
        ELSE Arm(channel2, None)

process_ResponsePl(channel, header, segment) ==
    LET is_new_response == is_new_transfer(channel.current_multiframe_receive, header)
    IN  IF is_new_response /\ header.id \notin channel.outgoing_requests
        THEN Arm(channel, Some(Fatal(with_err(header, "FictitiousRequest"))))
        ELSE process_ResponsePl_accept(channel, header, segment, is_new_response)

process_CancelReq(channel, header) ==
    IF channel.cancellation_allowance = 0
    THEN Arm(channel, Some(Fatal(with_err(header, "CancellationLimitExceeded"))))
    ELSE Arm([channel EXCEPT !.cancellation_allowance = @ - 1],
             Some(Success(RequestCancellation(header.id))))

process_CancelResp(channel, header) ==
    LET removed == HashSet_remove(channel.outgoing_requests, header.id)
        channel1 == [channel EXCEPT !.outgoing_requests = removed.set]
    IN  IF removed.was_present
        THEN Arm(channel1, Some(Success(ResponseCancellation(header.id))))
        ELSE Arm(channel1, Some(Fatal(with_err(header, "FictitiousCancel"))))

\* The match on header.kind().
process_kind(channel, header, segment) ==
    CASE header.kind = "Request" -> process_Request(channel, header)
      [] header.kind = "Response" -> process_Response(channel, header)
      [] header.kind = "RequestPl" -> process_RequestPl(channel, header, segment)
      [] header.kind = "ResponsePl" -> process_ResponsePl(channel, header, segment)
      [] header.kind = "CancelReq" -> process_CancelReq(channel, header)
      [] OTHER -> process_CancelResp(channel, header)

\* generate_request_id is todo!(): it panics and returns no id.
generate_request_id(chans, channel) == None

allowed_to_send_request(chans, channel) ==
    Cardinality(chans[channel].outgoing_requests) < chans[channel].config.request_limit

\* create_request: a panic, an Err(LocalProtocolViolation) or Ok(OutgoingMessage);
\* it leaves the channels as they are.
create_request(chans, channel, payload) ==
    LET id == generate_request_id(chans, channel)
    IN  IF id = None THEN Panicked
        ELSE IF channel \notin DOMAIN chans
        THEN [outcome |-> "Err", err |-> "InvalidChannel"]
        ELSE IF ~allowed_to_send_request(chans, channel)
        THEN [outcome |-> "Err", err |-> "WouldExceedRequestLimit"]
        ELSE [outcome |-> "Ok",
              header |-> Header_new(IF payload # None THEN "RequestPl" ELSE "Request",
                                    channel, Unwrap(id)),
              payload |-> payload]

\* The channels of a new reader: channel 0 admits RequestLimit requests,
\* channel 1 a single one.
NewChannels == (0 :> Channel_new(RequestLimit)) @@ (1 :> Channel_new(1))

\* process_incoming returns `outcome` and leaves the channels as `chans`.
Read(chans, outcome) == [channels |-> chans, outcome |-> outcome]

RECURSIVE process_incoming(_, _)
process_incoming(chans, buffer) ==
    IF buffer = <<>> THEN Read(chans, Incomplete)
    ELSE IF Head(buffer).header = None
    THEN Read(chans, Fatal(Header_new_error("InvalidHeader", UNKNOWN_CHANNEL, UNKNOWN_ID)))
    ELSE LET header == Unwrap(Head(buffer).header)
         IN  IF is_error(header)
             THEN IF header.error_kind = "Other"
                  THEN Read(chans, Panicked)
                  ELSE Read(chans, Success(ErrorReceived(header)))
             ELSE IF header.channel \notin DOMAIN chans
             THEN Read(chans, Fatal(with_err(header, "InvalidChannel")))
             ELSE LET arm == process_kind(chans[header.channel], header,
                                          Head(buffer).segment)
                      chans1 == [chans EXCEPT ![header.channel] = arm.channel]
                  IN  IF arm.outcome = None
                      THEN process_incoming(chans1, Tail(buffer))
                      ELSE Read(chans1, Unwrap(arm.outcome))
-----------------------------------------------------------------------------
(* The state machine *)

\* The instance as a record, at the start of an operation called at time `now`;
\* `first` is the hash that hash-keyed collections yield first during the operation.
State(now, first) ==
    [faults |-> faults,
     rounds |-> rounds,
     first_non_finalized_round_id |-> first_non_finalized_round_id,
     proposals_waiting_for_parent |-> proposals_waiting_for_parent,
     proposals_waiting_for_validation |-> proposals_waiting_for_validation,
     pending_proposal_round_ids |-> pending_proposal_round_ids,
     active_validator |-> active_validator,
     current_timeout |-> current_timeout,
     progress_detected |-> progress_detected,
     outcomes |-> <<>>,
     crashed |-> FALSE,
     now |-> now,
     first |-> first]

\* The operation returned `s`, or panicked.
Result(s) ==
    IF s.crashed
    THEN /\ crashed' = TRUE
         /\ outcomes' = <<>>
         /\ UNCHANGED <<weights, ftt, faults, rounds, first_non_finalized_round_id,
                        proposals_waiting_for_parent, proposals_waiting_for_validation,
                        pending_proposal_round_ids, active_validator, current_timeout,
                        progress_detected, quorum_call, channels, read, counted,
                   matrix, sufficient,
                        registering, observed, prefixer>>
    ELSE /\ faults' = s.faults
         /\ rounds' = s.rounds
         /\ first_non_finalized_round_id' = s.first_non_finalized_round_id
         /\ proposals_waiting_for_parent' = s.proposals_waiting_for_parent
         /\ proposals_waiting_for_validation' = s.proposals_waiting_for_validation
         /\ pending_proposal_round_ids' = s.pending_proposal_round_ids
         /\ active_validator' = s.active_validator
         /\ current_timeout' = s.current_timeout
         /\ progress_detected' = s.progress_detected
         /\ outcomes' = s.outcomes
         /\ UNCHANGED <<weights, ftt, crashed, quorum_call, channels, read, counted,
                   matrix, sufficient,
                        registering, observed, prefixer>>

Return(s) == Result(s) /\ UNCHANGED delivered

RoundItems(round) ==
    SumOver([h \in DOMAIN round.echos |-> Cardinality(DOMAIN round.echos[h])],
                  DOMAIN round.echos)
        + Cardinality(keys_some(round.votes[TRUE]))
        + Cardinality(keys_some(round.votes[FALSE]))

\* The number of things the instance has taken in: stored Echo and Vote
\* signatures, faults found after construction (direct evidence holds two signed
\* messages), its activation and its timeout.
Items ==
    SumOver([r \in DOMAIN rounds |-> RoundItems(rounds[r])], DOMAIN rounds)
        + Cardinality({vidx \in DOMAIN faults : ~is_banned(faults[vidx])})
        + Cardinality({vidx \in DOMAIN faults : is_direct(faults[vidx])})
        + (IF active_validator = None THEN 0 ELSE 1)
        + (IF current_timeout = TIMESTAMP_MAX THEN 0 ELSE 1)

OutOfRange == Cardinality(ValidatorIndexes)

\* A message with the signature of the validator it names.
Signed(round_id, content, validator_idx) ==
    Message_Signed(round_id, INSTANCE_ID, content, validator_idx,
                   sign(validator_idx, round_id, content, validator_idx))

\* The proposals the leader of a round signs: in round 0 the root proposal,
\* later the child of round 0 or the dummy proposal.
RoundProposals(round_id) ==
    IF round_id = 0 THEN {RootProposal} ELSE {ChildProposal, DummyProposal}

\* The round whose leader is the validator banned from the start.
BannedLeaderRound == 2

\* Correctly signed messages: the proposals of each round's leader, validator
\* 0's Echos of them and its Votes, validator 1's Echo of the dummy proposal,
\* and a proposal of the banned validator for the round it leads.
SignedMessages ==
    UNION {{Signed(round_id, Content_Proposal(p), leader(round_id)) :
                p \in RoundProposals(round_id)} : round_id \in RoundIds}
        \cup UNION {{Signed(round_id, Content_Echo(proposal_hash(p)), 0) :
                         p \in RoundProposals(round_id)} : round_id \in RoundIds}
        \cup {Signed(round_id, Content_Vote(vote), 0) :
                  round_id \in RoundIds, vote \in BOOLEAN}
        \cup {Signed(0, Content_Echo(proposal_hash(DummyProposal)), 1)}
        \cup {Signed(BannedLeaderRound, Content_Proposal(DummyProposal),
                     leader(BannedLeaderRound))}

\* Messages whose signature does not verify.
BadlySignedMessages ==
    {Message_Signed(0, INSTANCE_ID, Content_Vote(TRUE), 0, BadSignature),
     Message_Signed(0, INSTANCE_ID, Content_Vote(TRUE), 2, BadSignature),
     Message_Signed(FutureRound, INSTANCE_ID, Content_Vote(TRUE), 0, BadSignature)}

\* The instance id of another era.
OTHER_INSTANCE_ID == "other-era"

\* Correctly signed messages that are malformed: of another instance, of an
\* unknown validator, a proposal not signed by the leader of its round, and a
\* proposal whose parent is not from an earlier round.
MalformedMessages ==
    {Message_Signed(0, OTHER_INSTANCE_ID, Content_Vote(TRUE), 0,
                    sign(0, 0, Content_Vote(TRUE), 0)),
     Signed(0, Content_Vote(TRUE), OutOfRange),
     Signed(0, Content_Proposal(RootProposal), 1),
     Signed(0, Content_Proposal(ChildProposal), 0)}

\* The byte strings peers send.
IncomingMessages ==
    {serialize(m) : m \in SignedMessages \cup BadlySignedMessages \cup MalformedMessages}
        \cup {GarbageBytes}

\* Hash-keyed collections of more than one element are iterated in an order the
\* program does not fix; only then the choice of the first element matters.
OrderMatters ==
    \/ \E r \in DOMAIN rounds :
           \/ Cardinality(DOMAIN rounds[r].proposals) > 1
           \/ Cardinality(DOMAIN rounds[r].echos) > 1
    \/ \E r \in DOMAIN proposals_waiting_for_parent :
           Cardinality(DOMAIN proposals_waiting_for_parent[r]) > 1

Firsts == IF OrderMatters THEN Hashes ELSE {CHOOSE h \in Hashes : TRUE}

\* Messages and validation results arrive at ArrivalTime, timers fire at any time.
ArrivalTime == MaxTime

TimerIds == {TIMER_ID_ROUND, TIMER_ID_PROPOSAL_TIMEOUT}

NewBlocks == {ProposedBlock("B", BlockContext(t, <<>>)) : t \in ProposalTimestamps}

Init ==
    /\ weights = [vidx \in ValidatorIndexes |-> 1]
    /\ ftt = 1
    /\ faults = [vidx \in {2} |-> Fault_Banned]
    /\ rounds = EmptyMap
    /\ first_non_finalized_round_id = 0
    /\ proposals_waiting_for_parent = EmptyMap
    /\ proposals_waiting_for_validation = EmptyMap
    /\ pending_proposal_round_ids = None
    /\ active_validator = None
    /\ current_timeout = TIMESTAMP_MAX
    /\ progress_detected = FALSE
    /\ outcomes = <<>>
    /\ crashed = FALSE
    /\ quorum_call = None
    /\ delivered = EmptyMap
    /\ channels = NewChannels
    /\ read = None
    /\ counted = EmptyMap
    /\ matrix = ValidatorMatrix_new(Ratio_new(1, 3))
    /\ sufficient = None
    /\ registering = EmptyMap
    /\ observed = EmptyMap
    /\ prefixer = None

HandleMessage(sender, msg, first) ==
    /\ ~crashed
    /\ Items < MaxItems
    /\ Return(handle_message(State(ArrivalTime, first), sender, msg))

\* A timer fires while the timeout it sets lies within the times of the model.
HandleTimer(timer_id, now, first) ==
    /\ ~crashed
    /\ Items < MaxItems
    /\ current_round(State(now, first)) <= MaxRound
    /\ timer_id = TIMER_ID_ROUND => now + PROPOSAL_TIMEOUT <= MaxTime
    /\ Return(handle_timer(State(now, first), timer_id))

Propose(proposed_block, first) ==
    /\ ~crashed
    /\ Return(propose(State(ArrivalTime, first), proposed_block))

ResolveValidity(proposed_block, valid, first, first_round) ==
    /\ ~crashed
    /\ Return(resolve_validity(State(ArrivalTime, first), proposed_block, valid,
                               first_round))

ActivateValidator(our_id) ==
    /\ ~crashed
    /\ Items < MaxItems
    /\ Return(activate_validator(State(ArrivalTime, CHOOSE h \in Hashes : TRUE), our_id))

MarkFaulty(vid) ==
    /\ ~crashed
    /\ Items < MaxItems
    /\ Return(mark_faulty(State(ArrivalTime, CHOOSE h \in Hashes : TRUE), vid))

Next ==
    \/ \E sender \in NodeIds, msg \in IncomingMessages, first \in Firsts :
           HandleMessage(sender, msg, first)
    \/ \E timer_id \in TimerIds, now \in Times, first \in Firsts :
           HandleTimer(timer_id, now, first)
    \/ \E proposed_block \in NewBlocks, first \in Firsts :
           Propose(proposed_block, first)
    \/ \E proposed_block \in DOMAIN proposals_waiting_for_validation \cup NewBlocks,
          valid \in BOOLEAN, first \in Firsts,
          first_round \in {e[1] : e \in UNION {proposals_waiting_for_validation[b] :
                                      b \in DOMAIN proposals_waiting_for_validation}}
                              \cup {0} :
           ResolveValidity(proposed_block, valid, first, first_round)
    \/ \E our_id \in {0, OutOfRange} : ActivateValidator(our_id)
    \/ \E vid \in {1, OutOfRange} : MarkFaulty(vid)

Spec == Init /\ [][Next]_vars

-----------------------------------------------------------------------------
(* Repeated delivery: handle_message is given messages of round 0 and of a      *)
(* round that is too far ahead until round 0 has an accepted proposal, each up  *)
(* to twice and from either of two peers.                                       *)

\* The first round that is more than MAX_FUTURE_ROUNDS ahead of round 0.
NearFutureRound == MAX_FUTURE_ROUNDS + 1

DupMessages ==
    {Signed(0, Content_Proposal(RootProposal), 0),
     Signed(0, Content_Echo(proposal_hash(RootProposal)), 0),
     Signed(0, Content_Vote(TRUE), 0),
     Signed(0, Content_Vote(FALSE), 0),
     Signed(NearFutureRound, Content_Vote(TRUE), 0)}

DupSenders == {"peer", "other-peer"}

Deliveries(msg) == IF msg \in DOMAIN delivered THEN delivered[msg] ELSE 0

HandleMessageAgain(sender, msg, first) ==
    /\ ~crashed
    /\ Deliveries(msg) < 2
    /\ Result(handle_message(State(ArrivalTime, first), sender, msg))
    /\ delivered' = MapPut(delivered, msg, Deliveries(msg) + 1)

NextDup ==
    \E sender \in DupSenders, m \in DupMessages, first \in Firsts :
        HandleMessageAgain(sender, serialize(m), first)

SpecDup == Init /\ [][NextDup]_vars

-----------------------------------------------------------------------------
(* Synchronization: handle_message is given signed messages of round 0 and      *)
(* SyncState messages of peers that report none, one or all of the signatures.  *)

SyncSigned ==
    {Signed(0, Content_Proposal(RootProposal), 0),
     Signed(0, Content_Echo(proposal_hash(RootProposal)), 0),
     Signed(0, Content_Echo(proposal_hash(RootProposal)), 1),
     Signed(0, Content_Vote(TRUE), 0),
     Signed(0, Content_Vote(FALSE), 0),
     Signed(0, Content_Vote(TRUE), 1)}

\* The bit fields of a peer that has none, the first or all of the signatures.
SyncBitFields == {{}, {0}, {0, 1, 2}}

SyncStates ==
    {Message_SyncState(round_id, maybe_hash, proposal, first_validator_idx,
                       bit_field, bit_field, bit_field, faulty, INSTANCE_ID) :
         round_id \in RoundIds,
         maybe_hash \in {None, Some(proposal_hash(RootProposal))},
         proposal \in BOOLEAN,
         first_validator_idx \in {0, 1, OutOfRange},
         bit_field \in SyncBitFields,
         faulty \in {{}, {0, 1, 2}}}

NextSync ==
    \/ \E m \in SyncSigned \cup SyncStates, first \in Firsts :
           HandleMessage("peer", serialize(m), first)
    \/ MarkFaulty(1)

SpecSync == Init /\ [][NextSync]_vars

-----------------------------------------------------------------------------
(* Finalization without faults: three validators of weight 1, ftt = 1, none    *)
(* faulty; handle_message is given the proposal of round 0, the Echos of all   *)
(* validators and their Votes to commit, in any order and up to twice.         *)

InitHappy ==
    /\ weights = [vidx \in ValidatorIndexes |-> 1]
    /\ ftt = 1
    /\ faults = EmptyMap
    /\ rounds = EmptyMap
    /\ first_non_finalized_round_id = 0
    /\ proposals_waiting_for_parent = EmptyMap
    /\ proposals_waiting_for_validation = EmptyMap
    /\ pending_proposal_round_ids = None
    /\ active_validator = None
    /\ current_timeout = TIMESTAMP_MAX
    /\ progress_detected = FALSE
    /\ outcomes = <<>>
    /\ crashed = FALSE
    /\ quorum_call = None
    /\ delivered = EmptyMap
    /\ channels = NewChannels
    /\ read = None
    /\ counted = EmptyMap
    /\ matrix = ValidatorMatrix_new(Ratio_new(1, 3))
    /\ sufficient = None
    /\ registering = EmptyMap
    /\ observed = EmptyMap
    /\ prefixer = None

HappyProposal == Signed(0, Content_Proposal(RootProposal), 0)

HappyEchos ==
    {Signed(0, Content_Echo(proposal_hash(RootProposal)), vidx) : vidx \in ValidatorIndexes}

HappyVotes == {Signed(0, Content_Vote(TRUE), vidx) : vidx \in ValidatorIndexes}

NextHappy ==
    \E m \in {HappyProposal} \cup HappyEchos \cup HappyVotes, first \in Firsts :
        HandleMessageAgain("peer", serialize(m), first)

SpecHappy == InitHappy /\ [][NextHappy]_vars

-----------------------------------------------------------------------------
(* Proposing: validator 0 or 1 is activated, its timers fire, the block it   *)
(* asked for is proposed, and handle_message is given the proposals of       *)
(* round 0 with validator 0's Echos of them.                                 *)

\* The instance holds at most this many items when a timer of the proposing
\* validator fires, and the current round is at most MaxLeaderRound then.
MaxLeaderItems == 7

MaxLeaderRound == 4

LeaderMessages ==
    {Signed(0, Content_Proposal(p), 0) : p \in {RootProposal, DummyProposal}}
        \cup {Signed(0, Content_Echo(proposal_hash(p)), 0) :
                  p \in {RootProposal, DummyProposal}}

LeaderTimer(timer_id, now, first) ==
    /\ ~crashed
    /\ Items < MaxLeaderItems
    /\ current_round(State(now, first)) <= MaxLeaderRound
    /\ timer_id = TIMER_ID_ROUND => now + PROPOSAL_TIMEOUT <= MaxTime
    /\ Return(handle_timer(State(now, first), timer_id))

NextLeader ==
    \/ \E our_id \in {0, 1} : ActivateValidator(our_id)
    \/ \E timer_id \in TimerIds, now \in Times, first \in Firsts :
           LeaderTimer(timer_id, now, first)
    \/ \E proposed_block \in NewBlocks, first \in Firsts :
           Propose(proposed_block, first)
    \/ \E m \in LeaderMessages, first \in Firsts :
           HandleMessage("peer", serialize(m), first)

SpecLeader == Init /\ [][NextLeader]_vars

-----------------------------------------------------------------------------
(* Voting to skip: validator 1 is activated, its timers fire, and             *)
(* handle_message is given the messages of validator 0 for round 0.           *)

SkipMessages ==
    {Signed(0, Content_Vote(vote), 0) : vote \in BOOLEAN}
        \cup {Signed(0, Content_Proposal(RootProposal), 0),
              Signed(0, Content_Echo(proposal_hash(RootProposal)), 0)}

NextSkip ==
    \/ ActivateValidator(1)
    \/ \E timer_id \in TimerIds, now \in Times, first \in Firsts :
           HandleTimer(timer_id, now, first)
    \/ \E m \in SkipMessages, first \in Firsts :
           HandleMessage("peer", serialize(m), first)

SpecSkip == Init /\ [][NextSkip]_vars

-----------------------------------------------------------------------------
(* The message reader: process_incoming is given buffers that hold one      *)
(* frame, or a first segment of a multi-frame request and the next frame.   *)

Ids == {1, 2, 3, 4, 7}

Frame(header, segment) == [header |-> Some(header), segment |-> segment]

Unparseable == [header |-> None, segment |-> "none"]

PlainFrames ==
    {Frame(Header_new(kind, 0, id), "none") :
         kind \in {"Request", "Response", "CancelReq", "CancelResp"}, id \in Ids}
        \cup {Frame(Header_new(kind, 1, 7), "none") : kind \in {"Request", "CancelReq"}}
        \cup {Frame(Header_new("Request", Cardinality(DOMAIN NewChannels), 1), "none")}

PayloadFrames ==
    {Frame(Header_new("RequestPl", 0, 1), segment) :
         segment \in {"short", "oversize", "partial", "final"}}
        \cup {Frame(Header_new("RequestPl", 0, 2), "final"),
              Frame(Header_new("ResponsePl", 0, 1), "final")}

ErrorFrames ==
    {Frame(Header_new_error(error_kind, 0, 1), "none") :
         error_kind \in {"Other", "DuplicateRequest"}}

NextFrames ==
    {Frame(Header_new("RequestPl", 0, 1), segment) : segment \in {"partial", "final"}}
        \cup {Frame(Header_new("RequestPl", 0, 2), "final"),
              Frame(Header_new("Request", 0, 2), "none"),
              Frame(Header_new("CancelReq", 0, 1), "none")}

Buffers ==
    {<<>>, <<Unparseable>>}
        \cup {<<frame>> : frame \in PlainFrames \cup PayloadFrames \cup ErrorFrames}
        \cup {<<Frame(Header_new("RequestPl", 0, 1), "partial"), frame>> :
                  frame \in NextFrames}

\* The reader panicked in its last process_incoming.
ReaderPanicked == IF read = None THEN FALSE ELSE Unwrap(read).outcome = Panicked

ProcessIncoming(buffer) ==
    /\ ~ReaderPanicked
    /\ LET returned == process_incoming(channels, buffer)
       IN  /\ channels' = returned.channels
           /\ read' = Some([buffer |-> buffer, outcome |-> returned.outcome])
    /\ UNCHANGED <<weights, ftt, faults, rounds, first_non_finalized_round_id,
                   proposals_waiting_for_parent, proposals_waiting_for_validation,
                   pending_proposal_round_ids, active_validator, current_timeout,
                   progress_detected, outcomes, crashed, quorum_call, delivered,
                   counted,
                   matrix, sufficient,
                   registering, observed, prefixer>>

NextReader == \E buffer \in Buffers : ProcessIncoming(buffer)

SpecReader == Init /\ [][NextReader]_vars

-----------------------------------------------------------------------------
(* Cancellations: a reader with one channel that admits RequestLimit - 1    *)
(* requests; the NewRequest and RequestCancellation reads are counted.      *)

\* At most this many NewRequest reads are counted on a channel.
MaxAccepted == 3

CancelChannels == (0 :> Channel_new(RequestLimit - 1))

InitCancel ==
    /\ weights = [vidx \in ValidatorIndexes |-> 1]
    /\ ftt = 1
    /\ faults = [vidx \in {2} |-> Fault_Banned]
    /\ rounds = EmptyMap
    /\ first_non_finalized_round_id = 0
    /\ proposals_waiting_for_parent = EmptyMap
    /\ proposals_waiting_for_validation = EmptyMap
    /\ pending_proposal_round_ids = None
    /\ active_validator = None
    /\ current_timeout = TIMESTAMP_MAX
    /\ progress_detected = FALSE
    /\ outcomes = <<>>
    /\ crashed = FALSE
    /\ quorum_call = None
    /\ delivered = EmptyMap
    /\ channels = CancelChannels
    /\ read = None
    /\ counted = [c \in DOMAIN CancelChannels |-> [requests |-> 0, cancellations |-> 0]]
    /\ matrix = ValidatorMatrix_new(Ratio_new(1, 3))
    /\ sufficient = None
    /\ registering = EmptyMap
    /\ observed = EmptyMap
    /\ prefixer = None

CancelFrames ==
    {Frame(Header_new(kind, 0, id), "none") :
         kind \in {"Request", "CancelReq"}, id \in {1, 2, 3}}
        \cup {Frame(Header_new("RequestPl", 0, 1), segment) :
                  segment \in {"partial", "final"}}

\* The counts after process_incoming returned `outcome`.
Count(counts, outcome) ==
    IF outcome.outcome # "Success" THEN counts
    ELSE IF outcome.value.read = "NewRequest"
    THEN [counts EXCEPT !.requests = @ + 1]
    ELSE IF outcome.value.read = "RequestCancellation"
    THEN [counts EXCEPT !.cancellations = @ + 1]
    ELSE counts

CountedProcessIncoming(frame) ==
    /\ ~ReaderPanicked
    /\ counted[Unwrap(frame.header).channel].requests < MaxAccepted
    /\ LET returned == process_incoming(channels, <<frame>>)
           c == Unwrap(frame.header).channel
       IN  /\ channels' = returned.channels
           /\ read' = Some([buffer |-> <<frame>>, outcome |-> returned.outcome])
           /\ counted' = [counted EXCEPT ![c] = Count(@, returned.outcome)]
    /\ UNCHANGED <<weights, ftt, faults, rounds, first_non_finalized_round_id,
                   proposals_waiting_for_parent, proposals_waiting_for_validation,
                   pending_proposal_round_ids, active_validator, current_timeout,
                   progress_detected, outcomes, crashed, quorum_call, delivered,
                   matrix, sufficient,
                   registering, observed, prefixer>>

NextCancel == \E frame \in CancelFrames : CountedProcessIncoming(frame)

SpecCancel == InitCancel /\ [][NextCancel]_vars

-----------------------------------------------------------------------------
(* Responses: a reader with one channel on which requests to the peer are   *)
(* outstanding.  Their registration is not part of reader.rs (create_request *)
(* does not reach it), so the outstanding ids are drawn initially.           *)

OutgoingIds == {1, 2, 3}

ResponseChannels ==
    {(0 :> [Channel_new(RequestLimit) EXCEPT !.outgoing_requests = outstanding]) :
         outstanding \in SUBSET OutgoingIds}

InitResponse ==
    /\ weights = [vidx \in ValidatorIndexes |-> 1]
    /\ ftt = 1
    /\ faults = [vidx \in {2} |-> Fault_Banned]
    /\ rounds = EmptyMap
    /\ first_non_finalized_round_id = 0
    /\ proposals_waiting_for_parent = EmptyMap
    /\ proposals_waiting_for_validation = EmptyMap
    /\ pending_proposal_round_ids = None
    /\ active_validator = None
    /\ current_timeout = TIMESTAMP_MAX
    /\ progress_detected = FALSE
    /\ outcomes = <<>>
    /\ crashed = FALSE
    /\ quorum_call = None
    /\ delivered = EmptyMap
    /\ channels \in ResponseChannels
    /\ read = None
    /\ counted = EmptyMap
    /\ matrix = ValidatorMatrix_new(Ratio_new(1, 3))
    /\ sufficient = None
    /\ registering = EmptyMap
    /\ observed = EmptyMap
    /\ prefixer = None

ResponseFrames ==
    {Frame(Header_new(kind, 0, id), "none") :
         kind \in {"Response", "CancelResp", "Request"}, id \in OutgoingIds}
        \cup {Frame(Header_new("ResponsePl", 0, 1), segment) :
                  segment \in {"oversize", "partial", "final"}}

\* create_request is called; what it returns is recorded with an empty buffer.
CreateRequest(channel, payload) ==
    /\ ~ReaderPanicked
    /\ read' = Some([buffer |-> <<>>, outcome |-> create_request(channels, channel, payload)])
    /\ UNCHANGED <<weights, ftt, faults, rounds, first_non_finalized_round_id,
                   proposals_waiting_for_parent, proposals_waiting_for_validation,
                   pending_proposal_round_ids, active_validator, current_timeout,
                   progress_detected, outcomes, crashed, quorum_call, delivered,
                   channels, counted,
                   matrix, sufficient,
                   registering, observed, prefixer>>

NextResponse ==
    \/ \E frame \in ResponseFrames : ProcessIncoming(<<frame>>)
    \/ \E payload \in {None, Some("payload")} : CreateRequest(0, payload)

SpecResponse == InitResponse /\ [][NextResponse]_vars

-----------------------------------------------------------------------------
(* The validator matrix: eras are registered, overwritten and removed.       *)

EraIds == {0, 1, 2}

PublicKeys == {"a", "b", "c"}

FinalitySignature(public_key) == [public_key |-> public_key]

EraWeightMaps == {EmptyMap, [k \in {"a"} |-> 1], [k \in {"a", "b"} |-> 2]}

EraValidators ==
    {EraValidatorWeights_new(era_id, validator_weights, f) :
         era_id \in EraIds, validator_weights \in EraWeightMaps,
         f \in {Ratio_new(1, 3), Ratio_new(1, 2)}}

\* The operation left the matrix as `m`.
MatrixIs(m) ==
    /\ matrix' = m
    /\ UNCHANGED <<weights, ftt, faults, rounds, first_non_finalized_round_id,
                   proposals_waiting_for_parent, proposals_waiting_for_validation,
                   pending_proposal_round_ids, active_validator, current_timeout,
                   progress_detected, outcomes, crashed, quorum_call, delivered,
                   channels, read, counted, sufficient,
                   registering, observed, prefixer>>

RegisterEraValidatorWeights(validators) ==
    MatrixIs(register_era_validator_weights(matrix, validators))

RegisterValidatorWeights(era_id, validator_weights) ==
    MatrixIs(register_validator_weights(matrix, era_id, validator_weights))

RemoveEra(era_id) == MatrixIs(remove_era(matrix, era_id))

RemoveEras(earliest_era_to_keep) == MatrixIs(remove_eras(matrix, earliest_era_to_keep))

NextMatrix ==
    \/ \E validators \in EraValidators : RegisterEraValidatorWeights(validators)
    \/ \E era_id \in EraIds, validator_weights \in EraWeightMaps :
           RegisterValidatorWeights(era_id, validator_weights)
    \/ \E era_id \in EraIds : RemoveEra(era_id)
    \/ \E era_id \in EraIds : RemoveEras(era_id)

SpecMatrix == Init /\ [][NextMatrix]_vars

-----------------------------------------------------------------------------
(* Signature weights: a matrix with any finality threshold fraction, an era *)
(* with any weights, and have_sufficient_weight for any signers.            *)

\* Largest weight of a validator of an era.
MaxEraWeight == 2

\* Largest numerator and denominator of the finality threshold fraction.
MaxDenom == 3

Fractions ==
    {[numer |-> numer, denom |-> denom] : numer \in 0..MaxDenom, denom \in 1..MaxDenom}

InitWeight ==
    /\ weights = [vidx \in ValidatorIndexes |-> 1]
    /\ ftt = 1
    /\ faults = [vidx \in {2} |-> Fault_Banned]
    /\ rounds = EmptyMap
    /\ first_non_finalized_round_id = 0
    /\ proposals_waiting_for_parent = EmptyMap
    /\ proposals_waiting_for_validation = EmptyMap
    /\ pending_proposal_round_ids = None
    /\ active_validator = None
    /\ current_timeout = TIMESTAMP_MAX
    /\ progress_detected = FALSE
    /\ outcomes = <<>>
    /\ crashed = FALSE
    /\ quorum_call = None
    /\ delivered = EmptyMap
    /\ channels = NewChannels
    /\ read = None
    /\ counted = EmptyMap
    /\ matrix \in {ValidatorMatrix_new(f) : f \in Fractions}
    /\ sufficient = None
    /\ registering = EmptyMap
    /\ observed = EmptyMap
    /\ prefixer = None

\* One Vec of signatures for every set of signers.
SignatureVecs ==
    {SeqOf({FinalitySignature(public_key) : public_key \in signers}) :
         signers \in SUBSET PublicKeys}

HaveSufficientWeight(era_id, signatures) ==
    /\ sufficient' = Some([era_id |-> era_id, signatures |-> signatures,
                            result |-> have_sufficient_weight(matrix, era_id, signatures)])
    /\ UNCHANGED <<weights, ftt, faults, rounds, first_non_finalized_round_id,
                   proposals_waiting_for_parent, proposals_waiting_for_validation,
                   pending_proposal_round_ids, active_validator, current_timeout,
                   progress_detected, outcomes, crashed, quorum_call, delivered,
                   channels, read, counted, matrix,
                   registering, observed, prefixer>>

NextWeight ==
    \/ \E validator_weights \in [PublicKeys -> 0..MaxEraWeight] :
           RegisterValidatorWeights(0, validator_weights)
    \/ \E era_id \in {0, 1}, signatures \in SignatureVecs :
           HaveSufficientWeight(era_id, signatures)

SpecWeight == InitWeight /\ [][NextWeight]_vars

-----------------------------------------------------------------------------
(* Repeated signatures: have_sufficient_weight is given every Vec of at most *)
(* MaxSignatures finality signatures of two validators and of a key that is  *)
(* no validator of the era, repetitions included.                            *)

MaxSignatures == 2

\* A public key that is not a validator of any era.
Outsider == "z"

RECURSIVE SeqsUpTo(_, _)
SeqsUpTo(S, n) ==
    IF n = 0 THEN {<<>>}
    ELSE SeqsUpTo(S, n - 1)
             \cup {Append(seq, x) : seq \in {q \in SeqsUpTo(S, n - 1) : Len(q) = n - 1}, x \in S}

RepeatedSignatureVecs ==
    SeqsUpTo({FinalitySignature(public_key) : public_key \in {"a", "b", Outsider}},
             MaxSignatures)

NextRepeat ==
    \/ \E validator_weights \in [PublicKeys -> 0..MaxEraWeight] :
           RegisterValidatorWeights(0, validator_weights)
    \/ \E signatures \in RepeatedSignatureVecs : HaveSufficientWeight(0, signatures)

SpecRepeat == InitWeight /\ [][NextRepeat]_vars

-----------------------------------------------------------------------------
(* Concurrent registration: the holders of one shared matrix call            *)
(* register_validator_weights while a reader calls validator_weights.  The   *)
(* read lock is held for contains_key only and released before               *)
(* register_era_validator_weights takes the write lock, so a call is two     *)
(* steps, and the steps of different holders interleave.                     *)

Holders == {"h1", "h2"}

ValidatorMatrix_validator_weights(m, era_id) ==
    IF era_id \in DOMAIN m.inner THEN Some(m.inner[era_id]) ELSE None

InitConcurrent ==
    /\ weights = [vidx \in ValidatorIndexes |-> 1]
    /\ ftt = 1
    /\ faults = EmptyMap
    /\ rounds = EmptyMap
    /\ first_non_finalized_round_id = 0
    /\ proposals_waiting_for_parent = EmptyMap
    /\ proposals_waiting_for_validation = EmptyMap
    /\ pending_proposal_round_ids = None
    /\ active_validator = None
    /\ current_timeout = TIMESTAMP_MAX
    /\ progress_detected = FALSE
    /\ outcomes = <<>>
    /\ crashed = FALSE
    /\ quorum_call = None
    /\ delivered = EmptyMap
    /\ channels = NewChannels
    /\ read = None
    /\ counted = EmptyMap
    /\ matrix = ValidatorMatrix_new(Ratio_new(1, 3))
    /\ sufficient = None
    /\ registering = [holder \in Holders |-> None]
    /\ observed = [era_id \in EraIds |-> None]
    /\ prefixer = None

\* What the steps of the holders and of the reader leave alone.
ConcurrentUnchanged ==
    UNCHANGED <<weights, ftt, faults, rounds, first_non_finalized_round_id,
                proposals_waiting_for_parent, proposals_waiting_for_validation,
                pending_proposal_round_ids, active_validator, current_timeout,
                progress_detected, outcomes, crashed, quorum_call, delivered,
                channels, read, counted, sufficient, prefixer>>

\* register_validator_weights up to the end of its condition: contains_key under
\* the read lock.  The call returns when the era is there, and goes on to
\* register_era_validator_weights when it is not.
ContainsKey(holder, era_id, validator_weights) ==
    /\ registering[holder] = None
    /\ registering' = IF era_id \in DOMAIN matrix.inner
                      THEN registering
                      ELSE [registering EXCEPT ![holder] =
                                Some([era_id |-> era_id,
                                      validator_weights |-> validator_weights])]
    /\ UNCHANGED <<matrix, observed>>
    /\ ConcurrentUnchanged

\* The rest of register_validator_weights: register_era_validator_weights inserts
\* under the write lock.
InsertEra(holder) ==
    /\ registering[holder] # None
    /\ LET registration == Unwrap(registering[holder])
       IN  matrix' = register_era_validator_weights(
                         matrix,
                         EraValidatorWeights_new(registration.era_id,
                                                 registration.validator_weights,
                                                 matrix.finality_threshold_fraction))
    /\ registering' = [registering EXCEPT ![holder] = None]
    /\ UNCHANGED observed
    /\ ConcurrentUnchanged

\* A reader clones the weights of an era out of the matrix.
ValidatorWeights(era_id) ==
    /\ observed' = [observed EXCEPT ![era_id] = ValidatorMatrix_validator_weights(matrix, era_id)]
    /\ UNCHANGED <<matrix, registering>>
    /\ ConcurrentUnchanged

NextConcurrent ==
    \/ \E holder \in Holders, era_id \in EraIds, validator_weights \in EraWeightMaps :
           ContainsKey(holder, era_id, validator_weights)
    \/ \E holder \in Holders : InsertEra(holder)
    \/ \E era_id \in EraIds : ValidatorWeights(era_id)

SpecConcurrent == InitConcurrent /\ [][NextConcurrent]_vars

-----------------------------------------------------------------------------
(* Quorum arithmetic: is_quorum applied to instances of every weight            *)
(* distribution, fault tolerance threshold and fault set.                       *)

InitQuorum ==
    /\ weights \in [ValidatorIndexes -> 1..MaxWeight]
    /\ ftt \in 0..(total_weight - 1)
    /\ faults \in {[vidx \in faulty |-> Fault_Indirect] : faulty \in SUBSET ValidatorIndexes}
    /\ rounds = EmptyMap
    /\ first_non_finalized_round_id = 0
    /\ proposals_waiting_for_parent = EmptyMap
    /\ proposals_waiting_for_validation = EmptyMap
    /\ pending_proposal_round_ids = None
    /\ active_validator = None
    /\ current_timeout = TIMESTAMP_MAX
    /\ progress_detected = FALSE
    /\ outcomes = <<>>
    /\ crashed = FALSE
    /\ quorum_call = None
    /\ delivered = EmptyMap
    /\ channels = NewChannels
    /\ read = None
    /\ counted = EmptyMap
    /\ matrix = ValidatorMatrix_new(Ratio_new(1, 3))
    /\ sufficient = None
    /\ registering = EmptyMap
    /\ observed = EmptyMap
    /\ prefixer = None

\* is_quorum is applied to two sets of validators.
IsQuorum(vidxs1, vidxs2) ==
    /\ quorum_call' = Some([vidxs1 |-> vidxs1, is_quorum1 |-> is_quorum(faults, vidxs1),
                            vidxs2 |-> vidxs2, is_quorum2 |-> is_quorum(faults, vidxs2)])
    /\ UNCHANGED <<weights, ftt, faults, rounds, first_non_finalized_round_id,
                   proposals_waiting_for_parent, proposals_waiting_for_validation,
                   pending_proposal_round_ids, active_validator, current_timeout,
                   progress_detected, outcomes, crashed, delivered, channels, read,
                   counted,
                   matrix, sufficient,
                   registering, observed, prefixer>>

NextQuorum ==
    \E vidxs1 \in SUBSET ValidatorIndexes, vidxs2 \in SUBSET ValidatorIndexes :
        IsQuorum(vidxs1, vidxs2)

SpecQuorum == InitQuorum /\ [][NextQuorum]_vars

\* C1: is_quorum(S) returns true if and only if the weight of S together with
\* all faulty validators is strictly greater than T/2 + F/2 + (T & F & 1); a set
\* whose weight plus faulty weight equals the threshold is not a quorum.
C1_QuorumIffStrictlyGreater ==
    \A qc \in quorum_call :
        qc.is_quorum1 <=>
            sum_weights(qc.vidxs1 \cup DOMAIN faults) > quorum_threshold

\* C2: if is_quorum(S1) and is_quorum(S2) both return true then the weight of
\* (S1 + faulty) intersected with (S2 + faulty) is strictly greater than ftt.
C2_QuorumIntersection ==
    \A qc \in quorum_call :
        qc.is_quorum1 /\ qc.is_quorum2 =>
            sum_weights((qc.vidxs1 \cup DOMAIN faults)
                            \cap (qc.vidxs2 \cup DOMAIN faults)) > ftt

-----------------------------------------------------------------------------
(* Properties of finalization *)

Range(seq) == {seq[i] : i \in 1..Len(seq)}

\* The rounds below first_non_finalized_round_id
FinalizedRounds == {r \in DOMAIN rounds : r < first_non_finalized_round_id}

\* C3: while faulty_weight <= ftt, for every finalized round with an accepted
\* proposal of hash h there is no other hash h' # h in that round whose echo
\* signers together with the faulty validators form a quorum.
C3_Safety ==
    faulty_weight(faults) <= ftt =>
        \A r \in FinalizedRounds :
            accepted_proposal(rounds[r]) # None =>
                \A hash \in DOMAIN rounds[r].echos :
                    hash # Unwrap(rounds[r].outcome.quorum_echos) =>
                        ~is_quorum(faults, DOMAIN rounds[r].echos[hash])

\* C4: first_non_finalized_round_id never decreases.
C4_MonotoneFinalization ==
    [][first_non_finalized_round_id' >= first_non_finalized_round_id]_vars

\* One operation finalized rounds 0 and 1: first_non_finalized_round_id rose to 2.
C4_Witness ==
    /\ first_non_finalized_round_id = 2
    /\ {o.round_id : o \in {x \in Range(outcomes) : x.type = "FinalizedBlock"}} = {0, 1}

\* C5: every round r < first_non_finalized_round_id has
\* accepted_proposal_height = Some(_) and quorum_votes = Some(true).
C5_I1 ==
    \A r \in 0..(first_non_finalized_round_id - 1) :
        /\ r \in DOMAIN rounds
        /\ rounds[r].outcome.accepted_proposal_height # None
        /\ rounds[r].outcome.quorum_votes = Some(TRUE)

\* C5 (amended): the round just below first_non_finalized_round_id has an
\* accepted proposal and a quorum of Vote(true); every round below it has an
\* accepted proposal or a quorum of Vote(false).
C5_I1_Amended ==
    \A r \in 0..(first_non_finalized_round_id - 1) :
        /\ r \in DOMAIN rounds
        /\ \/ rounds[r].outcome.accepted_proposal_height # None
           \/ rounds[r].outcome.quorum_votes = Some(FALSE)
        /\ r = first_non_finalized_round_id - 1 =>
               /\ rounds[r].outcome.accepted_proposal_height # None
               /\ rounds[r].outcome.quorum_votes = Some(TRUE)

\* Round 0 was skipped and round 1 finalized, or round 0 was finalized as the
\* uncommitted parent of round 1.
C5_Witness ==
    /\ first_non_finalized_round_id = 2
    /\ 0 \in DOMAIN rounds
    /\ rounds[0].outcome.quorum_votes # Some(TRUE)
    /\ \E i \in 1..Len(outcomes) : outcomes[i].type = "FinalizedBlock"

\* C6: every round that is committed (quorum_votes = Some(true)) and has an
\* accepted proposal is finalized: its id is below first_non_finalized_round_id.
C6_CommittedAcceptedFinalized ==
    \A r \in DOMAIN rounds :
        /\ rounds[r].outcome.quorum_votes = Some(TRUE)
        /\ rounds[r].outcome.accepted_proposal_height # None
        => r < first_non_finalized_round_id

\* The proposal of a committed round arrived last and was finalized at once.
C6_Witness ==
    /\ Len(outcomes) >= 2
    /\ outcomes[1].type = "ScheduleTimer"
    /\ outcomes[2].type = "FinalizedBlock"
    /\ rounds[outcomes[2].round_id].outcome.quorum_votes = Some(TRUE)
    /\ first_non_finalized_round_id = outcomes[2].round_id + 1

FinalizedBlocks(os) == SelectSeq(os, LAMBDA o : o.type = "FinalizedBlock")

\* The round and its ancestors, by the parents of the accepted proposals.
RECURSIVE Chain(_, _)
Chain(rs, r) ==
    IF r \notin DOMAIN rs \/ accepted_proposal(rs[r]) = None THEN {}
    ELSE LET parent == Unwrap(accepted_proposal(rs[r]))[2].maybe_parent_round_id
         IN  {r} \cup (IF parent = None THEN {} ELSE Chain(rs, Unwrap(parent)))

\* C7: the FinalizedBlock outcomes of one operation are the blocks of the newly
\* finalized round and of its not yet finalized ancestors, each ancestor before
\* its descendant (strictly increasing round id and relative height); a
\* finalized proposal without a block advances first_non_finalized_round_id
\* and produces no FinalizedBlock outcome.
C7_AncestorsFirst ==
    [][LET blocks == FinalizedBlocks(outcomes')
           finalized ==
               IF first_non_finalized_round_id' = first_non_finalized_round_id THEN {}
               ELSE {r \in Chain(rounds', first_non_finalized_round_id' - 1) :
                         r >= first_non_finalized_round_id}
           with_block ==
               {r \in finalized :
                    Unwrap(accepted_proposal(rounds'[r]))[2].maybe_block # None}
       IN  /\ {blocks[i].round_id : i \in 1..Len(blocks)} = with_block
           /\ \A i \in 1..Len(blocks) :
                  LET acc == Unwrap(accepted_proposal(rounds'[blocks[i].round_id]))
                  IN  /\ blocks[i].relative_height = acc[1]
                      /\ Some(blocks[i].value) = acc[2].maybe_block
           /\ \A i, j \in 1..Len(blocks) :
                  i < j => /\ blocks[i].round_id < blocks[j].round_id
                           /\ blocks[i].relative_height < blocks[j].relative_height
      ]_vars

\* One operation finalized round 1 and, before it, its uncommitted parent round 0.
C7_Witness ==
    LET blocks == FinalizedBlocks(outcomes)
    IN  /\ Len(blocks) = 2
        /\ blocks[1].round_id = 0 /\ blocks[1].relative_height = 0
        /\ blocks[2].round_id = 1 /\ blocks[2].relative_height = 1
        /\ rounds[0].outcome.quorum_votes = None
        /\ first_non_finalized_round_id = 2

-----------------------------------------------------------------------------
(* Properties of fault handling *)

\* Direct evidence against the validator is stored by the step.
NewDirect(vidx) ==
    /\ vidx \in DOMAIN faults' /\ is_direct(faults'[vidx])
    /\ ~(vidx \in DOMAIN faults /\ is_direct(faults[vidx]))

\* C8: whenever an operation (handle_message detecting an equivocation, or
\* mark_faulty) adds a validator to the fault set so that faulty_weight becomes
\* greater than ftt, that operation returns an FttExceeded outcome.
C8_I2 ==
    [][(DOMAIN faults' # DOMAIN faults /\ faulty_weight(faults') > ftt)
           => FttExceeded \in Range(outcomes')]_vars

\* C8 (amended): whenever an operation stores direct evidence of an
\* equivocation and faulty_weight is then greater than ftt, the outcomes it
\* returns contain FttExceeded; mark_faulty returns no outcomes at all.
C8_I2_Amended ==
    [][/\ (\E vidx \in DOMAIN weights : NewDirect(vidx)) /\ faulty_weight(faults') > ftt
           => FttExceeded \in Range(outcomes')
       /\ (\E vid \in DOMAIN weights : MarkFaulty(vid)) => outcomes' = <<>>]_vars

\* Validator 0 equivocated while validator 2 was banned: the faulty weight 2
\* exceeds ftt = 1 and the operation returned FttExceeded.
C8_Witness ==
    /\ 0 \in DOMAIN faults /\ is_direct(faults[0])
    /\ faulty_weight(faults) > ftt
    /\ Len(outcomes) >= 4
    /\ outcomes[3] = NewEvidence(0)
    /\ outcomes[4] = FttExceeded

\* The signed message conflicts with an Echo or a Vote that a validator
\* without a fault has already sent in the same round.
Conflicting(m) ==
    /\ m.validator_idx \in DOMAIN weights
    /\ m.validator_idx \notin DOMAIN faults
    /\ m.round_id \in DOMAIN rounds
    /\ verify_signature(<<m.round_id, INSTANCE_ID, m.content, m.validator_idx>>,
                        m.validator_idx, m.signature)
    /\ \/ /\ m.content.type = "Echo"
          /\ \E hash \in DOMAIN rounds[m.round_id].echos :
                 /\ hash # m.content.hash
                 /\ m.validator_idx \in DOMAIN rounds[m.round_id].echos[hash]
       \/ /\ m.content.type = "Vote"
          /\ rounds[m.round_id].votes[~m.content.vote][m.validator_idx] # None

\* The message of the validator that is stored in the round and conflicts with m.
StoredConflicts(m) ==
    IF m.content.type = "Echo"
    THEN {Message_Signed(m.round_id, INSTANCE_ID, Content_Echo(hash), m.validator_idx,
                         rounds[m.round_id].echos[hash][m.validator_idx]) :
              hash \in {h \in DOMAIN rounds[m.round_id].echos :
                            /\ h # m.content.hash
                            /\ m.validator_idx \in DOMAIN rounds[m.round_id].echos[h]}}
    ELSE {Message_Signed(m.round_id, INSTANCE_ID, Content_Vote(~m.content.vote),
                         m.validator_idx,
                         Unwrap(rounds[m.round_id].votes[~m.content.vote][m.validator_idx]))}

\* C9: when a validator without direct evidence against it is found to have
\* signed two different Echo hashes or both Votes in one round, the operation
\* stores Fault::Direct with both signed messages and returns
\* CreatedGossipMessage for each of them followed by NewEvidence(validator);
\* NewEvidence is never returned for a validator that already has direct
\* evidence stored.
C9_EquivocationEvidence ==
    [][/\ \A m \in SignedMessages : \A first \in Firsts :
              Conflicting(m) /\ HandleMessage("peer", serialize(m), first)
                  => \E other \in StoredConflicts(m) :
                         /\ m.validator_idx \in DOMAIN faults'
                         /\ faults'[m.validator_idx] = Fault_Direct(m, other)
                         /\ Len(outcomes') >= 3
                         /\ outcomes'[1] = CreatedGossipMessage(m)
                         /\ outcomes'[2] = CreatedGossipMessage(other)
                         /\ outcomes'[3] = NewEvidence(m.validator_idx)
       /\ \A vidx \in DOMAIN weights :
              /\ NewEvidence(vidx) \in Range(outcomes') => NewDirect(vidx)
              /\ Cardinality({i \in 1..Len(outcomes') :
                                  outcomes'[i] = NewEvidence(vidx)}) <= 1
      ]_vars

-----------------------------------------------------------------------------
(* Properties of incoming messages *)

\* The checks of handle_signed_message that precede the signature check drop
\* the message without an outcome.
DroppedBeforeVerification(m, first) ==
    \/ /\ m.validator_idx \in DOMAIN faults
       /\ (is_banned(faults[m.validator_idx]) \/ ~is_proposal(m.content))
    \/ m.round_id > current_round(State(ArrivalTime, first)) + MAX_FUTURE_ROUNDS
    \/ /\ m.round_id \in DOMAIN rounds
       /\ contains(rounds[m.round_id], m.content, m.validator_idx)

\* C10: a signed message whose signature does not verify is always answered
\* with an InvalidIncomingMessage outcome.
C10_InvalidSignatureRejected ==
    [][\A m \in BadlySignedMessages : \A first \in Firsts :
           HandleMessage("peer", serialize(m), first)
               => \E i \in 1..Len(outcomes') :
                      outcomes'[i].type = "InvalidIncomingMessage"]_vars

\* C10 (amended): a signed message of a known validator whose signature does
\* not verify is answered with InvalidIncomingMessage("invalid signature") and
\* changes nothing, unless it is dropped before the signature check (the
\* validator is banned, or faulty and the message no proposal; the round is
\* more than MAX_FUTURE_ROUNDS ahead; the content is already stored), and then
\* no outcome is returned.
C10_InvalidSignatureRejected_Amended ==
    [][\A m \in BadlySignedMessages : \A first \in Firsts :
           HandleMessage("peer", serialize(m), first)
               => /\ outcomes' =
                         IF DroppedBeforeVerification(m, first) THEN <<>>
                         ELSE <<InvalidIncomingMessage(serialize(m), "peer",
                                                       "invalid signature")>>
                  /\ UNCHANGED <<faults, rounds, first_non_finalized_round_id>>]_vars

\* A badly signed Vote was rejected after correctly signed messages had been handled.
C10_Witness ==
    /\ \E m \in BadlySignedMessages :
           outcomes = <<InvalidIncomingMessage(serialize(m), "peer", "invalid signature")>>
    /\ rounds # EmptyMap

\* C11: whenever handle_message returns an InvalidIncomingMessage outcome, the
\* rounds, the faults, the maps of waiting proposals,
\* first_non_finalized_round_id and pending_proposal_round_ids are the same
\* before and after the call, and no other outcome is returned.
C11_RejectionLeavesState ==
    [][(\E i \in 1..Len(outcomes') : outcomes'[i].type = "InvalidIncomingMessage")
           => /\ Len(outcomes') = 1
              /\ UNCHANGED <<rounds, faults, proposals_waiting_for_parent,
                             proposals_waiting_for_validation,
                             first_non_finalized_round_id,
                             pending_proposal_round_ids>>]_vars

\* A proposal not signed by the leader of its round was rejected while a
\* proposal was waiting for its parent.
C11_Witness ==
    /\ outcomes = <<InvalidIncomingMessage(
                        serialize(Signed(0, Content_Proposal(RootProposal), 1)),
                        "peer", "wrong leader")>>
    /\ proposals_waiting_for_parent # EmptyMap

\* The proposal of the signed message m is parked until its parent is accepted,
\* waits for the block validator, or is stored in its round, in the state s.
Parked(s, m) ==
    LET proposal == m.content.proposal
        parent == proposal.maybe_parent_round_id
    IN  /\ parent # None
        /\ Unwrap(parent) \in DOMAIN s.proposals_waiting_for_parent
        /\ proposal \in DOMAIN s.proposals_waiting_for_parent[Unwrap(parent)]
        /\ <<m.round_id, "peer", m.signature>>
               \in s.proposals_waiting_for_parent[Unwrap(parent)][proposal]

SentToValidation(s, m) ==
    \E proposed_block \in DOMAIN s.proposals_waiting_for_validation :
        <<m.round_id, m.content.proposal.maybe_parent_round_id, "peer", m.signature>>
            \in s.proposals_waiting_for_validation[proposed_block]

Inserted(s, m) ==
    /\ m.round_id \in DOMAIN s.rounds
    /\ proposal_hash(m.content.proposal) \in DOMAIN s.rounds[m.round_id].proposals

Processed(s, m) ==
    \/ s.crashed
    \/ Parked(s, m)
    \/ SentToValidation(s, m)
    \/ Inserted(s, m)

\* The proposal is older than the accepted proposal of its parent round.
OlderThanParent(s, m) ==
    LET parent == m.content.proposal.maybe_parent_round_id
    IN  /\ parent # None
        /\ round_accepted_proposal(s, Unwrap(parent)) # None
        /\ Unwrap(round_accepted_proposal(s, Unwrap(parent)))[2].timestamp
               > m.content.proposal.timestamp

\* handle_message applied to the message m in the current state.
Handled(m, first) == handle_message(State(ArrivalTime, first), "peer", serialize(m))

\* The faulty validators' messages among the correctly signed ones.
FromFaulty == {m \in SignedMessages : m.validator_idx \in DOMAIN faults}

Recorded(m) ==
    \/ /\ m.validator_idx \in DOMAIN faults
       /\ (faults[m.validator_idx] = Fault_Banned \/ ~is_proposal(m.content))
    \/ /\ m.round_id \in DOMAIN rounds
       /\ contains(rounds[m.round_id], m.content, m.validator_idx)

\* handle_message returns no outcomes for m and changes nothing, whoever sends it.
Dropped(m) ==
    \A sender \in DupSenders : \A first \in Firsts :
        handle_message(State(ArrivalTime, first), sender, serialize(m))
            = State(ArrivalTime, first)

SentMessages(os) ==
    {os[i].msg.message : i \in {j \in 1..Len(os) : os[j].type = "CreatedTargetedMessage"}}

SentEvidence(os) ==
    {os[i].validator_id : i \in {j \in 1..Len(os) : os[j].type = "SendEvidence"}}

\* The validators inside the window of the SyncState message whose bit in the
\* given bit field is 0.
Lacking(sync, bit_field) ==
    {v \in DOMAIN weights :
         /\ bit_number(sync.first_validator_idx, v) < BIT_FIELD_WIDTH
         /\ bit_number(sync.first_validator_idx, v) \notin bit_field}

\* The Echo and Vote signatures of the round the responder holds and the peer lacks.
MissingSignatures(sync, hashes) ==
    IF sync.round_id \notin DOMAIN rounds THEN {}
    ELSE LET round == rounds[sync.round_id]
         IN  UNION {UNION {{Message_Signed(sync.round_id, INSTANCE_ID, Content_Echo(hash),
                                           v, round.echos[hash][v]) :
                                v \in Lacking(sync, sync.echos)
                                          \cap DOMAIN round.echos[hash]} :
                               hash \in hashes \cap DOMAIN round.echos},
                    {Message_Signed(sync.round_id, INSTANCE_ID, Content_Vote(TRUE), v,
                                    Unwrap(round.votes[TRUE][v])) :
                         v \in Lacking(sync, sync.true_votes)
                                   \cap keys_some(round.votes[TRUE])},
                    {Message_Signed(sync.round_id, INSTANCE_ID, Content_Vote(FALSE), v,
                                    Unwrap(round.votes[FALSE][v])) :
                         v \in Lacking(sync, sync.false_votes)
                                   \cap keys_some(round.votes[FALSE])}}

\* The faults with evidence the responder holds and the peer lacks.
MissingFaults(sync) ==
    {v \in Lacking(sync, sync.faulty) \cap DOMAIN faults : ~is_banned(faults[v])}

\* C14: the reply to a SyncState message holds the signed Echo, Vote(true) and
\* Vote(false) messages of exactly the validators inside the window whose
\* signature the responder holds and whose bit in the peer's bit field is 0,
\* and evidence for exactly the faults inside the window the peer lacks, in
\* every state of the responder.
C14_SyncStateDiff ==
    ~crashed =>
        \A sync \in SyncStates :
            sync.first_validator_idx \in DOMAIN weights =>
                LET reply == handle_message(State(ArrivalTime, CHOOSE h \in Hashes : TRUE),
                                            "peer", serialize(sync))
                    direct == {v \in MissingFaults(sync) : is_direct(faults[v])}
                    evidence == {faults[v].msg0 : v \in direct}
                                    \cup {faults[v].msg1 : v \in direct}
                    signatures == {m \in SentMessages(reply.outcomes) :
                                       ~is_proposal(m.content)} \ evidence
                IN  /\ ~reply.crashed
                    /\ IF sync.proposal_hash # None
                       THEN signatures = MissingSignatures(sync, sync.proposal_hash)
                       ELSE /\ signatures \subseteq MissingSignatures(sync, Hashes)
                            /\ MissingSignatures(sync, {}) \subseteq signatures
                    /\ evidence \subseteq SentMessages(reply.outcomes)
                    /\ SentEvidence(reply.outcomes) = MissingFaults(sync) \ direct

\* The messages of the set that handle_message has been given.
Handed(ms) == {m \in ms : Deliveries(serialize(m)) > 0}

\* The FinalizedBlock outcome of the proposal of round 0.
HappyFinalizedBlock ==
    FinalizedBlock(0, Unwrap(RootProposal.maybe_block), RootProposal.timestamp, 0, FALSE,
                   leader(0))

FalseVoters(round_id) == keys_some(rounds[round_id].votes[FALSE])

\* The active validator has to vote to skip the current round at time now.
VoteDue(now) ==
    LET round_id == current_round(State(now, CHOOSE h \in Hashes : TRUE))
    IN  /\ active_validator # None
        /\ now >= current_timeout
        /\ ~(/\ round_id \in DOMAIN rounds
             /\ has_voted(rounds[round_id], Unwrap(active_validator)))

\* C16: when TIMER_ID_PROPOSAL_TIMEOUT fires at time now, an active validator
\* signs and gossips Vote(false) for the current round if and only if now >=
\* current_timeout and it has not voted in the current round, and otherwise
\* there is no outcome; and while faulty_weight <= ftt, once validators that
\* form a quorum have voted false in a round it is skippable, and the operation
\* that makes the current round skippable schedules TIMER_ID_ROUND.
C16_VoteToSkip ==
    /\ [][\A now \in Times : \A first \in Firsts :
              HandleTimer(TIMER_ID_PROPOSAL_TIMEOUT, now, first)
                  => IF VoteDue(now)
                     THEN CreatedGossipMessage(
                              Signed(current_round(State(now, first)),
                                     Content_Vote(FALSE), Unwrap(active_validator)))
                              \in Range(outcomes')
                     ELSE outcomes' = <<>>]_vars
    /\ [](faulty_weight(faults) <= ftt
              => \A round_id \in DOMAIN rounds :
                     (/\ FalseVoters(round_id) # {}
                      /\ is_quorum(faults, FalseVoters(round_id)))
                         => rounds[round_id].outcome.quorum_votes = Some(FALSE))
    /\ [][\A round_id \in DOMAIN rounds' :
              (/\ round_id = current_round(State(0, CHOOSE h \in Hashes : TRUE))
               /\ rounds'[round_id].outcome.quorum_votes = Some(FALSE)
               /\ ~is_skippable_round(State(0, CHOOSE h \in Hashes : TRUE), round_id))
                  => \E i \in 1..Len(outcomes') :
                         /\ outcomes'[i].type = "ScheduleTimer"
                         /\ outcomes'[i].timer_id = TIMER_ID_ROUND]_vars

\* The last process_incoming returned Fatal with this error kind for a frame
\* of channel c.
FatalOn(c, error_kind) ==
    /\ read # None
    /\ Unwrap(read).outcome.outcome = "Fatal"
    /\ Unwrap(read).outcome.err.error_kind = error_kind
    /\ Unwrap(read).outcome.err.channel = c

\* The last process_incoming returned Success with this kind of read.
Completed(kind) ==
    /\ read # None
    /\ Unwrap(read).outcome.outcome = "Success"
    /\ Unwrap(read).outcome.value.read = kind

\* C17: for every channel, after every process_incoming over any sequence of
\* inbound frames, the number of ids in incoming_requests is at most the
\* channel's request_limit.
C17_RequestLimit ==
    \A c \in DOMAIN channels :
        in_flight_requests(channels[c]) <= channels[c].config.request_limit

C17_Witness ==
    \E c \in DOMAIN channels :
        /\ in_flight_requests(channels[c]) = channels[c].config.request_limit
        /\ channels[c].config.request_limit = RequestLimit
        /\ FatalOn(c, "RequestLimitExceeded")

\* C18: for every channel, after every process_incoming, cancellation_allowance
\* lies in [0, request_limit]; a process_incoming raises it only from a value
\* below request_limit, and lowers it only from a value above 0, by one.
C18_CancellationAllowance ==
    /\ [](\A c \in DOMAIN channels :
              /\ channels[c].cancellation_allowance >= 0
              /\ channels[c].cancellation_allowance <= channels[c].config.request_limit)
    /\ [][\A c \in DOMAIN channels :
              LET before == channels[c].cancellation_allowance
                  after == channels'[c].cancellation_allowance
              IN  /\ after > before
                      => before < channels[c].config.request_limit /\ after = before + 1
                  /\ after < before => before > 0 /\ after = before - 1]_vars

C18_Witness ==
    \E c \in DOMAIN channels :
        /\ channels[c].cancellation_allowance = channels[c].config.request_limit
        /\ channels[c].config.request_limit = RequestLimit
        /\ Completed("NewRequest")

\* The buffer holds one payload-less Request frame for an existing channel.
IsRequest(buffer) ==
    /\ Len(buffer) = 1
    /\ buffer[1].header # None
    /\ Unwrap(buffer[1].header).kind = "Request"
    /\ Unwrap(buffer[1].header).channel \in DOMAIN channels

\* C19: a payload-less Request frame with an id that is not in the incoming set
\* of a channel holding fewer than request_limit incoming requests yields
\* Success(NewRequest{id, None}), inserts the id and raises
\* cancellation_allowance by one, capped at request_limit; on a channel holding
\* request_limit incoming requests it yields Fatal(RequestLimitExceeded).
C19_RequestAccepted ==
    [][(read' # None /\ IsRequest(Unwrap(read').buffer)) =>
           LET header == Unwrap(Unwrap(read').buffer[1].header)
               outcome == Unwrap(read').outcome
               before == channels[header.channel]
               after == channels'[header.channel]
           IN  IF in_flight_requests(before) >= before.config.request_limit
               THEN outcome = Fatal(with_err(header, "RequestLimitExceeded"))
               ELSE header.id \notin before.incoming_requests =>
                        /\ outcome = Success(NewRequest(header.id, None))
                        /\ after.incoming_requests
                               = before.incoming_requests \cup {header.id}
                        /\ after.cancellation_allowance
                               = Min({before.cancellation_allowance + 1,
                                      before.config.request_limit})]_vars

\* C20: a Request frame whose id is in the incoming set of a channel below its
\* request_limit yields Fatal(DuplicateRequest), and a Request frame whose id
\* is not in the incoming set never yields Fatal(DuplicateRequest).
C20_DuplicateRequest ==
    [][(read' # None /\ IsRequest(Unwrap(read').buffer)) =>
           LET header == Unwrap(Unwrap(read').buffer[1].header)
               outcome == Unwrap(read').outcome
               before == channels[header.channel]
               duplicate == Fatal(with_err(header, "DuplicateRequest"))
           IN  /\ (/\ header.id \in before.incoming_requests
                   /\ in_flight_requests(before) < before.config.request_limit)
                      => outcome = duplicate
               /\ header.id \notin before.incoming_requests => outcome # duplicate]_vars

\* The buffer holds one CancelReq frame for an existing channel.
IsCancelReq(buffer) ==
    /\ Len(buffer) = 1
    /\ buffer[1].header # None
    /\ Unwrap(buffer[1].header).kind = "CancelReq"
    /\ Unwrap(buffer[1].header).channel \in DOMAIN channels

\* C21: a CancelReq frame on a channel with cancellation_allowance > 0 lowers
\* the allowance by exactly one and yields RequestCancellation{id}, whether or
\* not id is in the incoming set, and with allowance 0 yields
\* Fatal(CancellationLimitExceeded) and changes nothing; the RequestCancellation
\* reads of a channel never outnumber its NewRequest reads, and while at most
\* request_limit requests were accepted the allowance is their number less the
\* number of accepted cancellations (after two requests, two CancelReq succeed
\* and the third is fatal).
C21_CancellationAllowance ==
    /\ [][(read' # None /\ IsCancelReq(Unwrap(read').buffer)) =>
              LET header == Unwrap(Unwrap(read').buffer[1].header)
                  outcome == Unwrap(read').outcome
                  before == channels[header.channel]
                  after == channels'[header.channel]
              IN  IF before.cancellation_allowance > 0
                  THEN /\ outcome = Success(RequestCancellation(header.id))
                       /\ after = [before EXCEPT !.cancellation_allowance = @ - 1]
                  ELSE /\ outcome = Fatal(with_err(header, "CancellationLimitExceeded"))
                       /\ after = before]_vars
    /\ [](\A c \in DOMAIN counted :
              /\ counted[c].cancellations <= counted[c].requests
              /\ counted[c].requests <= channels[c].config.request_limit
                     => channels[c].cancellation_allowance
                            = counted[c].requests - counted[c].cancellations)

\* The buffer holds one frame of this kind for an existing channel.
IsFrame(buffer, kind) ==
    /\ Len(buffer) = 1
    /\ buffer[1].header # None
    /\ Unwrap(buffer[1].header).kind = kind
    /\ Unwrap(buffer[1].header).channel \in DOMAIN channels

\* What process_incoming does with a frame that has to match an outstanding
\* request: `matched` is read and the id removed, or `fictitious` is fatal.
Matches(kind, matched, fictitious) ==
    (read' # None /\ IsFrame(Unwrap(read').buffer, kind)) =>
        LET header == Unwrap(Unwrap(read').buffer[1].header)
            outcome == Unwrap(read').outcome
            before == channels[header.channel]
            after == channels'[header.channel]
        IN  IF header.id \in before.outgoing_requests
            THEN /\ outcome = Success([read |-> matched, id |-> header.id]
                                          @@ IF matched = "ReceivedResponse"
                                             THEN [payload |-> None] ELSE << >>)
                 /\ after.outgoing_requests = before.outgoing_requests \ {header.id}
            ELSE /\ outcome = Fatal(with_err(header, fictitious))
                 /\ after = before

\* C22: a payload-less Response (CancelResp) frame whose id is in the channel's
\* outgoing set removes the id and yields ReceivedResponse{id, None}
\* (ResponseCancellation{id}); if the id is absent the outcome is
\* Fatal(FictitiousRequest) (Fatal(FictitiousCancel)); a Response for the id
\* of the Response read just before it is fatal.
C22_ResponsesMatch ==
    /\ [][Matches("Response", "ReceivedResponse", "FictitiousRequest")]_vars
    /\ [][Matches("CancelResp", "ResponseCancellation", "FictitiousCancel")]_vars
    /\ [][(/\ Completed("ReceivedResponse")
           /\ IsFrame(Unwrap(read).buffer, "Response")
           /\ read' # None
           /\ Unwrap(read').buffer = Unwrap(read).buffer)
              => Unwrap(read').outcome
                     = Fatal(with_err(Unwrap(Unwrap(read).buffer[1].header),
                                      "FictitiousRequest"))]_vars

C22_Witness ==
    /\ Completed("ReceivedResponse")
    /\ IsFrame(Unwrap(read).buffer, "Response")
    /\ Unwrap(Unwrap(read).buffer[1].header).id
           \notin channels[0].outgoing_requests

WeightOfSigners(ev, signatures) ==
    LET signers == {signatures[i].public_key : i \in 1..Len(signatures)}
    IN  SumOver(ev.validator_weights, signers \cap DOMAIN ev.validator_weights)

\* Strict, Sufficient or Insufficient by cross-multiplication with p/q unreduced.
SignatureWeightOf(signed, total, p, q) ==
    IF 2 * q * signed >= total * (q + p) THEN Strict
    ELSE IF q * signed >= total * p THEN Sufficient
    ELSE Insufficient

\* C24: for every era weight map, every finality fraction f = p/q and every
\* signature set S, have_sufficient_weight returns Strict iff
\* 2*q*weight(S) >= total*(q + p), otherwise Sufficient iff
\* q*weight(S) >= total*p, otherwise Insufficient.
C24_SignatureWeight ==
    (sufficient # None /\ Unwrap(sufficient).result # None) =>
        LET ev == matrix.inner[Unwrap(sufficient).era_id]
        IN  Unwrap(sufficient).result
                = Some(SignatureWeightOf(WeightOfSigners(ev, Unwrap(sufficient).signatures),
                                         get_total_weight(ev),
                                         matrix.finality_threshold_fraction.numer,
                                         matrix.finality_threshold_fraction.denom))

C24_Witness ==
    /\ sufficient # None
    /\ Unwrap(sufficient).result = Some(Sufficient)
    /\ Len(Unwrap(sufficient).signatures) = 2
    /\ gcd(matrix.finality_threshold_fraction.numer,
           matrix.finality_threshold_fraction.denom) > 1

\* The eras other than era_id are registered as before.
OtherErasUnchanged(era_id) ==
    /\ DOMAIN matrix'.inner \ {era_id} = DOMAIN matrix.inner \ {era_id}
    /\ \A e \in DOMAIN matrix.inner \ {era_id} : matrix'.inner[e] = matrix.inner[e]

\* C25: register_validator_weights for an era that is registered leaves the
\* weights of that era and of every other era unchanged; for an era that is
\* absent it inserts the era with the given weights and the matrix's finality
\* threshold fraction and changes no other era; register_era_validator_weights
\* always overwrites the era's entry.
C25_RegisterNoOp ==
    /\ [][\A era_id \in EraIds, validator_weights \in EraWeightMaps :
              RegisterValidatorWeights(era_id, validator_weights) =>
                  /\ OtherErasUnchanged(era_id)
                  /\ matrix'.finality_threshold_fraction = matrix.finality_threshold_fraction
                  /\ era_id \in DOMAIN matrix'.inner
                  /\ matrix'.inner[era_id]
                         = IF era_id \in DOMAIN matrix.inner
                           THEN matrix.inner[era_id]
                           ELSE EraValidatorWeights_new(
                                    era_id, validator_weights,
                                    matrix.finality_threshold_fraction)]_vars
    /\ [][\A validators \in EraValidators :
              RegisterEraValidatorWeights(validators) =>
                  /\ OtherErasUnchanged(validators.era_id)
                  /\ validators.era_id \in DOMAIN matrix'.inner
                  /\ matrix'.inner[validators.era_id] = validators]_vars

\* An era is registered with weights that register_validator_weights was not
\* given for it first: a later call found the era registered.
C25_Witness ==
    \E era_id \in DOMAIN matrix.inner :
        /\ matrix.inner[era_id].validator_weights # EmptyMap
        /\ matrix.inner[era_id].finality_threshold_fraction
               # matrix.finality_threshold_fraction
        /\ Cardinality(DOMAIN matrix.inner) > 1

\* The proposal that round r stores for its quorum_echos hash.
EchoedProposal(r) ==
    rounds[r].proposals[Unwrap(rounds[r].outcome.quorum_echos)].proposal

\* Every round from `first` up to, and without, r has quorum_votes = Some(false).
SkippedBefore(first, r) ==
    \A k \in first..(r - 1) :
        k \in DOMAIN rounds /\ rounds[k].outcome.quorum_votes = Some(FALSE)

EchoSigners(round, hash) ==
    IF hash \in DOMAIN round.echos THEN DOMAIN round.echos[hash] ELSE {}

\* C27: in every reachable state and for every round, quorum_echos = Some(h)
\* implies that the validators recorded as echo signers of h in that round,
\* together with all validators in the fault set, form a quorum: their weight
\* is strictly greater than the quorum threshold.
C27_EchoQuorum ==
    \A r \in DOMAIN rounds :
        rounds[r].outcome.quorum_echos # None =>
            sum_weights(EchoSigners(rounds[r], Unwrap(rounds[r].outcome.quorum_echos))
                            \cup DOMAIN faults) > quorum_threshold

\* The validators with a Vote(true), Vote(false) or Echo signature stored in
\* the round.
StoredSigners(round) ==
    {v \in DOMAIN weights : round.votes[TRUE][v] # None \/ round.votes[FALSE][v] # None}
        \cup UNION {DOMAIN round.echos[h] : h \in DOMAIN round.echos}

WellFormedProposal(round_id, maybe_parent_round_id, signature) ==
    /\ signature.signer = leader(round_id)
    /\ maybe_parent_round_id # None => Unwrap(maybe_parent_round_id) < round_id

\* Every proposal in a round's proposal map, waiting for its parent or waiting
\* for validation is well formed.
StoredProposalsWellFormed ==
    /\ \A r \in DOMAIN rounds : \A h \in DOMAIN rounds[r].proposals :
           WellFormedProposal(r, rounds[r].proposals[h].proposal.maybe_parent_round_id,
                              rounds[r].proposals[h].signature)
    /\ \A parent \in DOMAIN proposals_waiting_for_parent :
           \A proposal \in DOMAIN proposals_waiting_for_parent[parent] :
               \A e \in proposals_waiting_for_parent[parent][proposal] :
                   WellFormedProposal(e[1], proposal.maybe_parent_round_id, e[3])
    /\ \A proposed_block \in DOMAIN proposals_waiting_for_validation :
           \A e \in proposals_waiting_for_validation[proposed_block] :
               WellFormedProposal(e[1], e[2], e[4])

\* The signed Proposals of the model that are not of their round's leader or
\* whose parent is not an earlier round.
IllFormedProposals ==
    {m \in SignedMessages \cup MalformedMessages :
         /\ is_proposal(m.content)
         /\ ~WellFormedProposal(m.round_id, m.content.proposal.maybe_parent_round_id,
                                [signer |-> m.validator_idx])}

\* handle_message returned InvalidIncomingMessage for the proposal m and
\* left the rounds and the waiting proposals as they were in the state s.
RejectedUnstored(s, m, after) ==
    /\ \E i \in 1..Len(after.outcomes) : after.outcomes[i].type = "InvalidIncomingMessage"
    /\ after.rounds = s.rounds
    /\ after.proposals_waiting_for_parent = s.proposals_waiting_for_parent
    /\ after.proposals_waiting_for_validation = s.proposals_waiting_for_validation

\* C29: in every reachable state every proposal stored in a round's proposal
\* map, parked in proposals_waiting_for_parent or parked in
\* proposals_waiting_for_validation carries a signature of the leader of its
\* round and has no parent or a parent round strictly before its round; and a
\* Proposal from a non-leader or with parent_round_id >= round_id is answered
\* with InvalidIncomingMessage and is not stored or parked.
C29_WellFormedProposals ==
    /\ StoredProposalsWellFormed
    /\ ~crashed =>
           \A m \in IllFormedProposals : \A first \in Firsts :
               RejectedUnstored(State(ArrivalTime, first), m, Handled(m, first))

\* A check of handle_signed_message that precedes the leader check drops the
\* proposal m without an outcome.
DroppedBeforeLeaderCheck(m, first) ==
    IF DroppedBeforeVerification(m, first) THEN TRUE
    ELSE m.content.proposal.timestamp > ArrivalTime + PENDING_VERTEX_TIMEOUT

\* C29 (amended): the stored and parked proposals are well formed in every
\* reachable state; a Proposal from a non-leader or with parent_round_id >=
\* round_id is never stored or parked, and it is answered with
\* InvalidIncomingMessage unless a check that precedes the leader check drops
\* it (its signer is banned, its round is more than MAX_FUTURE_ROUNDS ahead, its
\* round already holds the same proposal, or its timestamp is too far in the
\* future), and then nothing changes and no outcome is returned.
C29_WellFormedProposals_Amended ==
    /\ StoredProposalsWellFormed
    /\ ~crashed =>
           \A m \in IllFormedProposals : \A first \in Firsts :
               IF DroppedBeforeLeaderCheck(m, first)
               THEN Handled(m, first) = State(ArrivalTime, first)
               ELSE /\ Len(Handled(m, first).outcomes) = 1
                    /\ RejectedUnstored(State(ArrivalTime, first), m, Handled(m, first))

\* Proposals are stored in a round and wait for validation while a proposal
\* whose parent is its own round has just been rejected.
C29_Witness ==
    /\ \E m \in IllFormedProposals :
           /\ Len(outcomes) = 1
           /\ outcomes[1].type = "InvalidIncomingMessage"
           /\ outcomes[1].msg = serialize(m)
    /\ \E r \in DOMAIN rounds : rounds[r].proposals # EmptyMap
    /\ proposals_waiting_for_validation # EmptyMap

\* The validators form a quorum together with the faulty validators of the
\* state s: their weight is strictly greater than the quorum threshold.
QuorumWithFaulty(s, vidxs) ==
    sum_weights(vidxs \cup DOMAIN s.faults) > quorum_threshold

\* The round round_id of the state s has been re-evaluated: the quorums that
\* its votes and echoes form with the faulty validators are recorded (the
\* commit quorum before the skip quorum), and a committed round with an
\* accepted proposal is finalized.
ReEvaluated(s, round_id) ==
    LET round == s.rounds[round_id]
    IN  /\ QuorumWithFaulty(s, keys_some(round.votes[TRUE]))
               => /\ round.outcome.quorum_votes = Some(TRUE)
                  /\ has_accepted_proposal(round) => already_finalized(s, round_id)
        /\ (/\ QuorumWithFaulty(s, keys_some(round.votes[FALSE]))
            /\ ~QuorumWithFaulty(s, keys_some(round.votes[TRUE])))
               => round.outcome.quorum_votes = Some(FALSE)
        /\ (\E hash \in DOMAIN round.echos : QuorumWithFaulty(s, DOMAIN round.echos[hash]))
               => round.outcome.quorum_echos # None

\* The operation that detected the equivocation of validator_idx returned the
\* state s: the validator is faulty and every round that was not finalized
\* has been re-evaluated.
Cascaded(s, validator_idx) ==
    /\ ~s.crashed
    /\ validator_idx \in DOMAIN s.faults
    /\ \A round_id \in DOMAIN s.rounds :
           round_id >= first_non_finalized_round_id => ReEvaluated(s, round_id)

\* C30: when a detected equivocation adds validator v to the fault set, then
\* within the same operation every non-finalized round is re-evaluated with
\* v's weight counted as faulty: a round whose true-voters plus faulty
\* validators form a quorum gets quorum_votes = Some(true) and, if it has an
\* accepted proposal, is finalized in that same operation; likewise for echo
\* quorums and skip quorums.
C30_EquivocationCascade ==
    ~crashed =>
        \A m \in SignedMessages : \A first \in Firsts :
            Conflicting(m) => Cascaded(Handled(m, first), m.validator_idx)

\* The state of the instance between two operations.
Current == State(ArrivalTime, CHOOSE h \in Hashes : TRUE)

\* The most recent round before round_id with an accepted proposal, if any.
MostRecentAccepted(s, round_id) ==
    LET parents == {r \in 0..(round_id - 1) : round_accepted_proposal(s, r) # None}
    IN  IF parents = {} THEN None ELSE Some(Max(parents))

\* The node is an active validator and leader of the current round, no block
\* is pending, the current round holds no proposal and the most recent
\* earlier accepted proposal is neither a switch block nor a dummy.
MayRequestBlock(s) ==
    LET round_id == current_round(s)
        ancestor == MostRecentAccepted(s, round_id)
    IN  /\ s.active_validator # None
        /\ Unwrap(s.active_validator) = leader(round_id)
        /\ s.pending_proposal_round_ids = None
        /\ has_round(s, round_id) => s.rounds[round_id].proposals = EmptyMap
        /\ ancestor # None => /\ ~accepted_switch_block(s, Unwrap(ancestor))
                              /\ ~accepted_dummy_proposal(s, Unwrap(ancestor))

EmitsCreateNewBlock(outs) == \E i \in 1..Len(outs) : outs[i].type = "CreateNewBlock"

\* C31: an operation emits CreateNewBlock only when the node is an active
\* validator, leads the current round, pending_proposal_round_ids is None, the
\* current round holds no proposal and the most recent earlier round with an
\* accepted proposal is neither a switch block nor a dummy; it then records
\* pending_proposal_round_ids = (current round, that ancestor), which only
\* propose clears, so no second CreateNewBlock is emitted before propose.
C31_LeaderProposalRequest ==
    /\ [][EmitsCreateNewBlock(outcomes')
              => /\ MayRequestBlock(Current)
                 /\ pending_proposal_round_ids' =
                        Some(<<current_round(Current),
                               MostRecentAccepted(Current, current_round(Current))>>)]_vars
    /\ [][(pending_proposal_round_ids # None /\ ~crashed')
              => /\ ~EmitsCreateNewBlock(outcomes')
                 /\ \/ UNCHANGED pending_proposal_round_ids
                    \/ /\ pending_proposal_round_ids' = None
                       /\ \E proposed_block \in NewBlocks, first \in Firsts :
                              Propose(proposed_block, first)]_vars

\* Validator 1 asked for a block on top of the accepted proposal of round 0.
C31_Witness ==
    /\ EmitsCreateNewBlock(outcomes)
    /\ pending_proposal_round_ids = Some(<<1, Some(0)>>)

\* No proposal waits for a parent round that has an accepted proposal.
NoneParkedUnderAccepted ==
    \A parent \in DOMAIN proposals_waiting_for_parent :
        round_accepted_proposal(Current, parent) = None

\* The signed proposals with a parent that handle_signed_message parks: the
\* parent round has no accepted proposal, the round holds no proposal yet and
\* no earlier check drops the message.
Parkable(m, first) ==
    /\ is_proposal(m.content)
    /\ m.content.proposal.maybe_parent_round_id # None
    /\ round_accepted_proposal(Current, Unwrap(m.content.proposal.maybe_parent_round_id)) = None
    /\ m.round_id \in DOMAIN rounds => rounds[m.round_id].proposals = EmptyMap
    /\ ~DroppedBeforeLeaderCheck(m, first)

\* The proposal parked as entry e under parent was passed to validate_proposal:
\* it waits for the block validator or is stored in its round.
Released(parent, proposal, e) ==
    \/ \E proposed_block \in DOMAIN proposals_waiting_for_validation' :
           /\ Some(proposed_block.value) = proposal.maybe_block
           /\ <<e[1], Some(parent), e[2], e[3]>>
                  \in proposals_waiting_for_validation'[proposed_block]
    \/ /\ e[1] \in DOMAIN rounds'
       /\ proposal_hash(proposal) \in DOMAIN rounds'[e[1]].proposals

\* The round has no accepted proposal before the step and has one after it.
BecomesAccepted(round_id) ==
    /\ round_accepted_proposal(Current, round_id) = None
    /\ round_id \in DOMAIN rounds'
    /\ accepted_proposal(rounds'[round_id]) # None

C33_FaultsOnlyStrengthen ==
    /\ [][\A vidx \in DOMAIN faults :
              /\ vidx \in DOMAIN faults'
              /\ \/ faults'[vidx] = faults[vidx]
                 \/ faults[vidx] = Fault_Indirect /\ is_direct(faults'[vidx])]_vars
    /\ [](\A vidx \in DOMAIN faults : mark_faulty(Current, vidx) = Current)

\* Evidence against validator 1 has just been stored while validator 2 is
\* still banned.
C33_Witness ==
    /\ 1 \in DOMAIN faults /\ is_direct(faults[1])
    /\ faults[2] = Fault_Banned
    /\ \E i \in 1..Len(outcomes) : outcomes[i] = NewEvidence(1)

\* The signed messages of the validator among the gossiped outcomes.
CreatedBy(outs, validator_idx) ==
    {m \in {deserialize(outs[i].msg) :
                i \in {j \in 1..Len(outs) : outs[j].type = "CreatedGossipMessage"}} :
         m.variant = "Signed" /\ m.validator_idx = validator_idx}

\* The contents the validator has signed that the rounds store: its Votes,
\* its Echos and the Proposals of the rounds it leads.
StoredContents(validator_idx) ==
    UNION {{<<r, Content_Vote(vote)>> :
                vote \in {b \in BOOLEAN : rounds[r].votes[b][validator_idx] # None}}
               \cup {<<r, Content_Echo(hash)>> :
                         hash \in {h \in DOMAIN rounds[r].echos :
                                       validator_idx \in DOMAIN rounds[r].echos[h]}}
               \cup {<<r, Content_Proposal(rounds[r].proposals[hash].proposal)>> :
                         hash \in {h \in DOMAIN rounds[r].proposals :
                                       leader(r) = validator_idx}} :
           r \in DOMAIN rounds}

\* Two different contents of the same kind for the same round.
Contradictory(c1, c2) ==
    /\ c1[1] = c2[1]
    /\ c1[2].type = c2[2].type
    /\ c1[2] # c2[2]

\* The validator whose messages only the instance itself signs: the leader of
\* round 1 (the peers of the proposing specification send the messages of the
\* leader of round 0 only).
SelfSigner == leader(1)

\* C34: while its own index is not in the fault set, an active validator
\* never signs two contradictory contents for the same round (both Votes,
\* Echos of two hashes or, as leader, two Proposals), and so never becomes
\* faulty by its own messages.
C34_NoSelfEquivocation ==
    /\ [](SelfSigner \notin DOMAIN faults)
    /\ [][(active_validator = Some(SelfSigner) /\ SelfSigner \notin DOMAIN faults)
              => LET created == {<<m.round_id, m.content>> :
                                     m \in CreatedBy(outcomes', SelfSigner)}
                 IN  \A c1 \in created :
                         \A c2 \in created \cup StoredContents(SelfSigner) :
                             ~Contradictory(c1, c2)]_vars

\* Validator 1 voted to skip round 0, whose proposal was accepted afterwards,
\* and proposed in round 1.
C34_Witness ==
    /\ active_validator = Some(SelfSigner)
    /\ 0 \in DOMAIN rounds /\ 1 \in DOMAIN rounds
    /\ rounds[0].votes[FALSE][SelfSigner] # None
    /\ has_accepted_proposal(rounds[0])
    /\ rounds[1].proposals # EmptyMap

\* C35: for every round, once quorum_echos, quorum_votes or
\* accepted_proposal_height is Some(x) it keeps that value through every later
\* operation; the round stays in the map, it is never both committed and
\* skippable, and its accepted proposal never changes.
C35_OutcomesWriteOnce ==
    [][\A r \in DOMAIN rounds :
           /\ r \in DOMAIN rounds'
           /\ rounds[r].outcome.quorum_echos # None
                  => rounds'[r].outcome.quorum_echos = rounds[r].outcome.quorum_echos
           /\ rounds[r].outcome.quorum_votes # None
                  => rounds'[r].outcome.quorum_votes = rounds[r].outcome.quorum_votes
           /\ rounds[r].outcome.accepted_proposal_height # None
                  => rounds'[r].outcome.accepted_proposal_height
                         = rounds[r].outcome.accepted_proposal_height
           /\ accepted_proposal(rounds[r]) # None
                  => accepted_proposal(rounds'[r]) = accepted_proposal(rounds[r])]_vars

\* Round 0 stays skippable although the equivocation that has just been found
\* lets the faulty validators alone pass the quorum test for committing it.
C35_Witness ==
    /\ 0 \in DOMAIN rounds
    /\ rounds[0].outcome.quorum_votes = Some(FALSE)
    /\ is_quorum(faults, keys_some(rounds[0].votes[TRUE]))
    /\ \E i \in 1..Len(outcomes) : outcomes[i].type = "NewEvidence"

\* C36: no round is finalized twice (every FinalizedBlock is of a round that
\* was not finalized before the operation and is finalized after it, at most
\* one per round, and first_non_finalized_round_id never decreases); all
\* finalized proposals lie on a single parent chain (the chain of the round
\* finalized last contains the round finalized last before the operation);
\* and each FinalizedBlock has a relative_height one greater than that of the
\* parent of its proposal (0 without a parent).
C36_ForkFreedom ==
    [][LET blocks == FinalizedBlocks(outcomes')
       IN  /\ first_non_finalized_round_id' >= first_non_finalized_round_id
           /\ \A i \in 1..Len(blocks) :
                  /\ blocks[i].round_id >= first_non_finalized_round_id
                  /\ blocks[i].round_id < first_non_finalized_round_id'
                  /\ \A j \in 1..Len(blocks) :
                         blocks[i].round_id = blocks[j].round_id => i = j
                  /\ LET parent == Unwrap(accepted_proposal(rounds'[blocks[i].round_id]))[2]
                                       .maybe_parent_round_id
                     IN  blocks[i].relative_height =
                             IF parent = None THEN 0
                             ELSE Unwrap(accepted_proposal(rounds'[Unwrap(parent)]))[1] + 1
           /\ (/\ first_non_finalized_round_id' > first_non_finalized_round_id
               /\ first_non_finalized_round_id > 0)
                  => first_non_finalized_round_id - 1
                         \in Chain(rounds', first_non_finalized_round_id' - 1)
      ]_vars

\* Round 0 was finalized by an earlier operation and round 1, whose proposal
\* builds on round 0, has just been finalized.
C36_Witness ==
    LET blocks == FinalizedBlocks(outcomes)
    IN  /\ Len(blocks) = 1
        /\ blocks[1].round_id = 1 /\ blocks[1].relative_height = 1
        /\ first_non_finalized_round_id = 2
        /\ Chain(rounds, 1) = {0, 1}

\* One signature for every validator of the era among the signers.
DistinctValidatorSignatures(ev, signatures) ==
    SeqOf({FinalitySignature(public_key) :
               public_key \in {s.public_key : s \in Range(signatures)}
                                  \cap DOMAIN ev.validator_weights})

\* C37: have_sufficient_weight counts each validator at most once: its result
\* is the one it returns for one signature of every distinct validator among
\* the signers, so repeated signatures and signatures of keys that are no
\* validators of the era do not change it.
C37_CountedOnce ==
    (sufficient # None /\ Unwrap(sufficient).result # None) =>
        LET ev == matrix.inner[Unwrap(sufficient).era_id]
        IN  Unwrap(sufficient).result
                = Some(EraValidatorWeights_have_sufficient_weight(
                           ev, DistinctValidatorSignatures(ev, Unwrap(sufficient).signatures)))

-----------------------------------------------------------------------------
\* The error kinds of a fatal framing outcome that reject a frame before the
\* channel is touched.
FramingErrorKinds ==
    {"RequestLimitExceeded", "DuplicateRequest", "FictitiousRequest", "FictitiousCancel",
     "CancellationLimitExceeded", "InvalidChannel", "InvalidHeader"}

\* The request sets and the cancellation allowance of channel c.
Bookkeeping(chans, c) ==
    [incoming_requests |-> chans[c].incoming_requests,
     outgoing_requests |-> chans[c].outgoing_requests,
     cancellation_allowance |-> chans[c].cancellation_allowance]

\* C39: whenever process_incoming returns Fatal with one of the framing error
\* kinds, the incoming-request set, the outgoing-request set and the
\* cancellation_allowance of every channel are as they were before the call.
C39_FatalLeavesChannels ==
    [][(/\ read' # None
        /\ Unwrap(read').outcome.outcome = "Fatal"
        /\ Unwrap(read').outcome.err.error_kind \in FramingErrorKinds)
           => \A c \in DOMAIN channels :
                  Bookkeeping(channels', c) = Bookkeeping(channels, c)]_vars

-----------------------------------------------------------------------------
(* Length-prefixed sending.  A frame is a sequence of bytes; the writer is   *)
(* the bytes it accepted so far together with how often it accepted nothing  *)
(* and returned an error, and whether it ever accepted a part of the slice   *)
(* only and ever returned Pending.                                           *)

\* Longest frame handed to send_frame.
MaxFrameLen == 2

\* How often the writer of one future answers a write with Ok(0).
MaxEmptyWrites == 1

FrameBytes == {97, 98}

SendFrames == SeqsUpTo(FrameBytes, MaxFrameLen)

\* u64::to_le_bytes: the least significant byte first, eight bytes.
RECURSIVE le_bytes(_, _)
le_bytes(n, count) ==
    IF count = 0 THEN <<>> ELSE <<n % 256>> \o le_bytes(n \div 256, count - 1)

to_le_bytes(length) == le_bytes(length, 8)

\* Bytes::chain: the bytes of `a` and then the bytes of `b`.
chain(a, b) == [a |-> a, b |-> b]

has_remaining(buf) == buf.a # <<>> \/ buf.b # <<>>

chunk(buf) == IF buf.a # <<>> THEN buf.a ELSE buf.b

C40_Mutant_advance(buf, cnt) == chain(<<>>, <<>>)

advance(buf, cnt) ==
    LET a_rem == Len(buf.a)
    IN  IF a_rem >= cnt
        THEN chain(SubSeq(buf.a, cnt + 1, a_rem), buf.b)
        ELSE chain(<<>>, SubSeq(buf.b, cnt - a_rem + 1, Len(buf.b)))

NewWriter == [written |-> <<>>, empty |-> 0, errors |-> 0, partial |-> FALSE, stalled |-> FALSE]

GenericBufSender_new(buf, out) == [buf |-> buf, out |-> out]

LengthPrefixer_new(writer) == [writer |-> Some(writer), frame |-> None, future |-> None,
                               polled |-> None]

send_frame(frame, writer) ==
    LET length == Len(frame)
        length_prefixed_frame == chain(to_le_bytes(length), frame)
    IN  GenericBufSender_new(length_prefixed_frame, writer)

Poll_Pending == [poll |-> "Pending"]

Poll_Ready(output) == [poll |-> "Ready", output |-> output]

Polled(future, poll_result) == [future |-> future, poll_result |-> poll_result]

\* poll_write: the writer accepts the first bytes_written bytes of the slice.
poll_write(out, current_slice, bytes_written) ==
    [out EXCEPT !.written = @ \o SubSeq(current_slice, 1, bytes_written),
                !.empty = IF bytes_written = 0 THEN @ + 1 ELSE @,
                !.partial = @ \/ bytes_written < Len(current_slice)]

\* One turn of the loop of poll with a write that is Ready(Ok): the future after
\* buf.advance(bytes_written), for every number of bytes the writer may accept.
Written(self) ==
    LET current_slice == chunk(self.buf)
        least == IF self.out.empty < MaxEmptyWrites THEN 0 ELSE 1
    IN  {[buf |-> advance(self.buf, bytes_written),
          out |-> poll_write(self.out, current_slice, bytes_written)] :
             bytes_written \in least..Len(current_slice)}

\* The futures as they can be after any number of turns of the loop; the loop
\* goes on from those that have bytes remaining.  (The two sets are bound to
\* `s` and `t` so that each is computed once.)
RECURSIVE Loop(_, _)
Loop(seen, turned) ==
    UNION {IF t = {} THEN s
           ELSE Loop(s \cup t,
                     UNION {Written(self) : self \in {fut \in t : has_remaining(fut.buf)}}
                         \ (s \cup t)) :
               s \in {seen}, t \in {turned}}

\* GenericBufSender::poll: every way one poll can end, for every answer of the
\* writer to each of its writes.  At a write the writer returns Pending or an
\* error, and poll returns that; after a write that left nothing remaining poll
\* returns Ready(Ok(())).
poll(self) ==
    LET after == Loop({}, Written(self))
        writing == {self} \cup {fut \in after : has_remaining(fut.buf)}
    IN  {Polled([fut EXCEPT !.out.stalled = TRUE], Poll_Pending) : fut \in writing}
            \cup {Polled([fut EXCEPT !.out.errors = @ + 1], Poll_Ready("Err")) :
                      fut \in writing}
            \cup {Polled(fut, Poll_Ready("Ok")) :
                      fut \in {done \in after : ~has_remaining(done.buf)}}

InitSend ==
    /\ weights = [vidx \in ValidatorIndexes |-> 1]
    /\ ftt = 1
    /\ faults = EmptyMap
    /\ rounds = EmptyMap
    /\ first_non_finalized_round_id = 0
    /\ proposals_waiting_for_parent = EmptyMap
    /\ proposals_waiting_for_validation = EmptyMap
    /\ pending_proposal_round_ids = None
    /\ active_validator = None
    /\ current_timeout = TIMESTAMP_MAX
    /\ progress_detected = FALSE
    /\ outcomes = <<>>
    /\ crashed = FALSE
    /\ quorum_call = None
    /\ delivered = EmptyMap
    /\ channels = NewChannels
    /\ read = None
    /\ counted = EmptyMap
    /\ matrix = ValidatorMatrix_new(Ratio_new(1, 3))
    /\ sufficient = None
    /\ registering = EmptyMap
    /\ observed = EmptyMap
    /\ prefixer = LengthPrefixer_new(NewWriter)

SendUnchanged ==
    UNCHANGED <<weights, ftt, faults, rounds, first_non_finalized_round_id,
                proposals_waiting_for_parent, proposals_waiting_for_validation,
                pending_proposal_round_ids, active_validator, current_timeout,
                progress_detected, outcomes, crashed, quorum_call, delivered,
                channels, read, counted, matrix, sufficient, registering, observed>>

\* send_frame takes the writer out of the prefixer; it is called while the writer
\* is there.
SendFrame(frame) ==
    /\ prefixer.writer # None
    /\ prefixer' = [prefixer EXCEPT !.writer = None,
                                    !.frame = Some(frame),
                                    !.future = Some(send_frame(frame, Unwrap(prefixer.writer)))]
    /\ SendUnchanged

\* The future resolved: its last poll returned Ready.
Resolved == IF prefixer.polled = None THEN FALSE ELSE Unwrap(prefixer.polled).poll = "Ready"

\* The future is polled until it is Ready.
PollFuture ==
    /\ prefixer.future # None
    /\ ~Resolved
    /\ \E polled \in poll(Unwrap(prefixer.future)) :
           prefixer' = [prefixer EXCEPT !.future = Some(polled.future),
                                        !.polled = Some(polled.poll_result)]
    /\ SendUnchanged

NextSend ==
    \/ \E frame \in SendFrames : SendFrame(frame)
    \/ PollFuture

\* The task that awaits the future polls it again, and the writer does not
\* stay Pending for ever.
SpecSend == InitSend /\ [][NextSend]_vars /\ WF_vars(PollFuture)

\* The number that eight bytes are the little-endian encoding of.
RECURSIVE from_le_bytes(_)
from_le_bytes(bytes) ==
    IF bytes = <<>> THEN 0 ELSE Head(bytes) + 256 * from_le_bytes(Tail(bytes))

\* What the writer accepted, followed by what the future has yet to write.
Wire(future) == future.out.written \o future.buf.a \o future.buf.b

\* The bytes of the wire are the frame's length in eight bytes, least
\* significant first, and then the frame.
LengthPrefixed(wire, frame) ==
    /\ Len(wire) = 8 + Len(frame)
    /\ \A i \in 1..8 : wire[i] \in 0..255
    /\ from_le_bytes(SubSeq(wire, 1, 8)) = Len(frame)
    /\ SubSeq(wire, 9, Len(wire)) = frame

PolledReady(output) ==
    IF prefixer.polled = None THEN FALSE
    ELSE Unwrap(prefixer.polled) = Poll_Ready(output)

\* C40: the future of send_frame(frame) writes the frame's length as 8
\* little-endian bytes and then the frame, in order, without loss or duplication,
\* however the writer splits the data and stalls: what was accepted followed by
\* what is left is always that.  It is Ready(Ok) only when nothing is left, it is
\* Ready(Err) exactly when the writer returned its first error, and it becomes
\* Ready after finitely many polls.
C40_LengthPrefixedSending ==
    /\ [](prefixer.future # None
              => LET future == Unwrap(prefixer.future)
                 IN  /\ LengthPrefixed(Wire(future), Unwrap(prefixer.frame))
                     /\ PolledReady("Ok") => ~has_remaining(future.buf)
                     /\ future.out.errors <= 1
                     /\ PolledReady("Err") <=> future.out.errors = 1)
    /\ [](prefixer.future # None => <>Resolved)

C40_Witness ==
    /\ prefixer.future # None
    /\ PolledReady("Ok")
    /\ Len(Unwrap(prefixer.frame)) = MaxFrameLen
    /\ Unwrap(prefixer.future).out.written
           = to_le_bytes(MaxFrameLen) \o Unwrap(prefixer.frame)
    /\ Unwrap(prefixer.future).out.partial
    /\ Unwrap(prefixer.future).out.empty >= 1
    /\ Unwrap(prefixer.future).out.stalled

====
